---- MODULE Spec2Model ----
(***************************************************************************)
(* Verification model of github.com/cirius-go/devutil.                     *)
(*                                                                         *)
(* slice.Collect is modelled as a state machine: the engine's loop, the    *)
(* step function's calls on the CollectorContext (SetValue, Continue,      *)
(* Stop), Go's panic/recover unwinding between the step function and the   *)
(* engine's deferred recover, and the return.  slice.Filter runs the same  *)
(* engine with its own step closure.  slice.ForEachChunk is modelled with  *)
(* one process per goroutine, the semaphore channel, the error channel and *)
(* the WaitGroup.                                                          *)
(* slice.Chunk and slice.Flatten are operators applied to bounded inputs.  *)
(* record.Merge, record.Associate and record.ToSet run over a heap of      *)
(* maps, a map argument being a reference into it.                         *)
(*                                                                         *)
(* Go indices are 0-based; At(s, i) reads element i of a Go slice.         *)
(***************************************************************************)
EXTENDS Integers, Sequences, FiniteSets, TLC

\* ------------------------------------------------------------------------
\* Bounds of the model
\* ------------------------------------------------------------------------

\* longest input slice handed to Collect / Filter
MaxLen == 3

\* total number of statements the step function executes in a run, over all
\* its invocations: SetValue, Continue, Stop, panic and recover
MaxCalls == 4

\* largest chunk size handed to ForEachChunk (0 stands for the sizes <= 0)
MaxChunkSize == 2

\* largest concurrency handed to ForEachChunk (0 and 1 are the sequential mode)
MaxConcurrency == 3

\* largest number of argument maps handed to record.Merge, and number of
\* maps that exist when it is called
MaxMaps == 2

\* input element values (type In)
Elems == {1, 2}

\* the input slices handed to Collect: the prefixes of 1, 2, 1, 2, ...
\* (Collect never inspects an element, it only hands it to the step function
\* and to the element errors)
Inputs == {[j \in 1..k |-> IF j % 2 = 1 THEN 1 ELSE 2] : k \in 0..MaxLen}

\* non-nil error values, and the nil error
Errs == {"e1", "e2"}

NilErr == "nil"

\* values a step function panics with that are not control signals
PanicVals == {"boom"}

\* ------------------------------------------------------------------------
\* controlSignal constants (slice.go:11-17)
\* ------------------------------------------------------------------------
sigExclude == "sigExclude"

sigStop == "sigStop"

sigContinue == "sigContinue"

NoPanic == "none"

\* ------------------------------------------------------------------------
\* Helpers
\* ------------------------------------------------------------------------

\* element i (0-based) of a Go slice
At(s, i) == s[i + 1]

\* a Go slice: nil, or a backing sequence of elements
Slice(isNil, elems) == [isNil |-> isNil, elems |-> elems]

NilSlice == Slice(TRUE, <<>>)

\* all sequences over S of length 0..n
SeqsUpTo(S, n) == UNION {[1..k -> S] : k \in 0..n}

\* The loop of Continue / Stop over errs: one ElemError per non-nil error,
\* in argument order, carrying the current index and input[index].
RECURSIVE ElemErrorsOf(_, _, _)
ElemErrorsOf(es, index, value) ==
    IF es = <<>> THEN <<>>
    ELSE IF Head(es) # NilErr
         THEN <<[Index |-> index, Value |-> value, Err |-> Head(es)]>>
              \o ElemErrorsOf(Tail(es), index, value)
         ELSE ElemErrorsOf(Tail(es), index, value)

VARIABLES
    \* ---- Collect: arguments
    input,          \* the input slice
    inputNil,       \* TRUE when the input slice is nil (then input = <<>>)
    handlerNil,     \* TRUE when the step function is nil
    \* ---- Collect: locals
    pc,             \* position of the Collect call
    i,              \* loop index of `for i := range input`
    result,         \* var result []Out
    errs,           \* var errs SliceError[In]
    \* ---- collectorContextImpl fields
    continued,
    stopped,
    errOnStopped,
    errOnContinued,
    currentIndex,
    currentValue,
    hasValue,
    \* ---- the running step function
    hstate,         \* "idle" | "body" | "panicking" | "deferred"
    panicVal,       \* value of the panic in flight, NoPanic when none
    \* ---- outcome of the Collect call
    ret,            \* returned (results, error)
    propagated,     \* panic value that reached Collect's caller
    \* ---- observation of the run
    log,            \* every call the step function made, in order
    origin,         \* origin[j] = index whose iteration appended result[j]
    \* ---- Collect: the slices the context hands out
    input0,         \* the caller's input as it was when Collect was called
    copied,         \* c.copied, the memoized copy of the input
    copies,         \* number of times the copy was built
    sliceRet,       \* what the last call of Slice() returned
    sliceAlias,     \* "none" | "copied" | "input": the array behind that slice
    snap,           \* what the last call of CurrentResult() returned
    snapAlias,      \* "none" | "fresh" | "result": the array behind that slice
    \* ---- Filter: arguments, position, the closure's local, the result
    predicate,      \* the predicate, a function of the element
    predicateNil,   \* TRUE when the predicate is nil
    filterPc,       \* "none" | "start" | "collect" | "done"
    stepPc,         \* position inside Filter's step closure
    val,            \* `val` of Filter's step closure
    filterRet,      \* what Filter returned
    \* ---- ForEachChunk: arguments
    fecInput,       \* the input slice
    chunkSize,
    concurrency,
    \* ---- ForEachChunk: locals of the calling goroutine
    fecPc,          \* "none" | "start" | "seq" | "seqHandler" | "dispatch" | "done"
    chunks,         \* chunks := Chunk(input, chunkSize)
    next,           \* position of `for _, chunk := range chunks`
    sem,            \* number of tokens buffered in the channel sem
    errChan,        \* the errors buffered in the channel errChan
    wg,             \* counter of the WaitGroup
    worker,         \* worker[j]: the goroutine started for chunk j
    fecRet,         \* what ForEachChunk returned
    \* ---- ForEachChunk: what the handler saw
    calls,          \* calls[j]: number of handler invocations on chunk j
    outcome,        \* outcome[j]: "none" | "nil" | "err", what it returned
    processed,      \* sequential mode: the accumulator the handler appends
                    \* its chunk to
    \* ---- a call of Chunk or Flatten
    pureOp,         \* "none" | "Chunk" | "Flatten"
    pureInput,      \* the input slice
    pureSize,       \* Chunk's size argument
    pureResult,     \* what the call returned
    pureFlat,       \* what Flatten returned for the chunks Chunk returned
    purePc,         \* "idle" | "start" | "returned" | "flattened"
    \* ---- a call of record.Merge, record.Associate or record.ToSet
    recOp,          \* "none" | "Merge" | "Associate" | "ToSet"
    recPc,          \* position in the function
    heap,           \* the maps that exist: heap[r] is the content of map r
    heap0,          \* the maps as they were when the call started
    maps,           \* Merge: the argument maps (references; 0 is a nil map)
    recInput,       \* Associate, ToSet: the input slice
    transform,      \* Associate: what transform returns for each item
    mapIdx,         \* Merge: position in maps
    todo,           \* Merge: keys of maps[mapIdx] the range has still to visit
    itemIdx,        \* Associate, ToSet: position in the input
    recResult,      \* the local `result` (a reference; 0 is nil)
    recRet,         \* what the call returned
    recSlice,       \* SortedKeys, SortedValues: the local `keys` / `values`
    mutated         \* Clone: which map the caller wrote to after the call

collectVars == <<input, inputNil, handlerNil, pc, i, result, errs,
                 continued, stopped, errOnStopped, errOnContinued,
                 currentIndex, currentValue, hasValue, hstate, panicVal,
                 ret, propagated, log, origin>>

accessVars == <<input0, copied, copies, sliceRet, sliceAlias, snap, snapAlias>>

filterVars == <<predicate, predicateNil, filterPc, stepPc, val, filterRet>>

fecVars == <<fecInput, chunkSize, concurrency, fecPc, chunks, next, sem,
             errChan, wg, worker, fecRet, calls, outcome, processed>>

pureVars == <<pureOp, pureInput, pureSize, pureResult, pureFlat, purePc>>

recordVars == <<recOp, recPc, heap, heap0, maps, recInput, transform, mapIdx,
                todo, itemIdx, recResult, recRet, recSlice, mutated>>

vars == <<collectVars, accessVars, filterVars, fecVars, pureVars, recordVars>>

NoReturn == [returned |-> FALSE, results |-> <<>>, errNil |-> TRUE, err |-> <<>>]

LogEntry(index, op, v, es, pv) ==
    [idx |-> index, op |-> op, val |-> v, errs |-> es, pv |-> pv]

\* the step function may still execute a statement within the model's bound
CallBudget ==
    Cardinality({j \in 1..Len(log) : log[j].op \notin {"Invoke", "Return"}})
        < MaxCalls

\* ------------------------------------------------------------------------
\* Init: a call Collect(input, handler) about to start
\* ------------------------------------------------------------------------
CollectLocalsInit ==
    /\ i = 0
    /\ result = <<>>
    /\ errs = <<>>
    /\ continued = FALSE
    /\ stopped = FALSE
    /\ errOnStopped = <<>>
    /\ errOnContinued = <<>>
    /\ currentIndex = 0
    /\ currentValue = 0
    /\ hasValue = FALSE
    /\ hstate = "idle"
    /\ panicVal = NoPanic
    /\ ret = NoReturn
    /\ propagated = NoPanic
    /\ log = <<>>
    /\ origin = <<>>
    /\ input0 = input
    /\ copied = NilSlice
    /\ copies = 0
    /\ sliceRet = NilSlice
    /\ sliceAlias = "none"
    /\ snap = NilSlice
    /\ snapAlias = "none"

CollectInit ==
    /\ input \in Inputs
    /\ inputNil \in BOOLEAN
    /\ inputNil => input = <<>>
    /\ handlerNil \in BOOLEAN
    /\ pc = "start"
    /\ CollectLocalsInit

NoFilterReturn == [returned |-> FALSE, results |-> <<>>]

\* Filter is not part of a direct Collect call
FilterIdle ==
    /\ predicate = [e \in Elems |-> TRUE]
    /\ predicateNil = TRUE
    /\ filterPc = "none"
    /\ stepPc = "idle"
    /\ val = 0
    /\ filterRet = NoFilterReturn

NoError == [isNil |-> TRUE, of |-> 0]

\* the error the handler returns for chunk j
HandlerError(j) == [isNil |-> FALSE, of |-> j]

NoFecReturn == [returned |-> FALSE, err |-> NoError]

NotStarted == [st |-> "none", err |-> NoError]

\* ForEachChunk is not part of a Collect or Filter call
FecIdle ==
    /\ fecInput = <<>>
    /\ chunkSize = 0
    /\ concurrency = 0
    /\ fecPc = "none"
    /\ chunks = <<>>
    /\ next = 0
    /\ sem = 0
    /\ errChan = <<>>
    /\ wg = 0
    /\ worker = [j \in 0..(MaxLen - 1) |-> NotStarted]
    /\ fecRet = NoFecReturn
    /\ calls = [j \in 0..(MaxLen - 1) |-> 0]
    /\ outcome = [j \in 0..(MaxLen - 1) |-> "none"]
    /\ processed = <<>>

\* Collect is not part of a call of another function
CollectIdle ==
    /\ input = <<>>
    /\ inputNil = FALSE
    /\ handlerNil = FALSE
    /\ pc = "idle"
    /\ CollectLocalsInit

\* Chunk and Flatten are not part of a Collect, Filter or ForEachChunk call
PureIdle ==
    /\ pureOp = "none"
    /\ pureInput = NilSlice
    /\ pureSize = 0
    /\ pureResult = NilSlice
    /\ pureFlat = NilSlice
    /\ purePc = "idle"

\* the nil map reference, and a map without entries
NilMap == 0

EmptyMap == [k \in {} |-> 0]

NoRecReturn == [returned |-> FALSE, ref |-> NilMap]

\* package record is not part of a call of package slice
RecordIdle ==
    /\ recOp = "none"
    /\ recPc = "idle"
    /\ heap = <<>>
    /\ heap0 = <<>>
    /\ maps = <<>>
    /\ recInput = NilSlice
    /\ transform = <<>>
    /\ mapIdx = 0
    /\ todo = {}
    /\ itemIdx = 0
    /\ recResult = NilMap
    /\ recRet = NoRecReturn
    /\ recSlice = NilSlice
    /\ mutated = "none"

Init == CollectInit /\ FilterIdle /\ FecIdle /\ PureIdle /\ RecordIdle

\* ------------------------------------------------------------------------
\* Collect (slice.go:108-208)
\* ------------------------------------------------------------------------

\* CollectEntry without the `handler == nil` test
MutCollectEntryNoNilCheck ==
    /\ pc = "start"
    /\ UNCHANGED <<accessVars, filterVars, fecVars, pureVars, recordVars>>
    /\ IF Len(input) = 0
       THEN /\ ret' = [returned |-> TRUE, results |-> result,
                       errNil |-> TRUE, err |-> <<>>]
            /\ pc' = "done"
       ELSE /\ pc' = "iter"
            /\ UNCHANGED ret
    /\ UNCHANGED <<input, inputNil, handlerNil, i, result, errs, continued,
                   stopped, errOnStopped, errOnContinued, currentIndex,
                   currentValue, hasValue, hstate, panicVal, propagated,
                   log, origin>>

\* lines 109-132: the early return and the construction of the context
CollectEntry ==
    /\ pc = "start"
    /\ UNCHANGED <<accessVars, filterVars, fecVars, pureVars, recordVars>>
    /\ IF Len(input) = 0 \/ handlerNil
       THEN /\ ret' = [returned |-> TRUE, results |-> result,
                       errNil |-> TRUE, err |-> <<>>]
            /\ pc' = "done"
       ELSE /\ pc' = "iter"
            /\ UNCHANGED ret
    /\ UNCHANGED <<input, inputNil, handlerNil, i, result, errs, continued,
                   stopped, errOnStopped, errOnContinued, currentIndex,
                   currentValue, hasValue, hstate, panicVal, propagated,
                   log, origin>>

\* the loop head without `c.currentIndex = i`
MutLoopHeadKeepsIndex ==
    /\ pc = "iter"
    /\ UNCHANGED <<accessVars, filterVars, fecVars, pureVars, recordVars>>
    /\ IF i < Len(input)
       THEN /\ stopped' = FALSE
            /\ continued' = FALSE
            /\ errOnStopped' = <<>>
            /\ errOnContinued' = <<>>
            /\ hasValue' = FALSE
            /\ pc' = "handler"
            /\ hstate' = "body"
            /\ log' = Append(log, LogEntry(i, "Invoke", 0, <<>>, NoPanic))
       ELSE /\ pc' = "ret"
            /\ UNCHANGED <<stopped, continued, errOnStopped, errOnContinued,
                           hasValue, hstate, log>>
    /\ UNCHANGED <<input, inputNil, handlerNil, i, result, errs,
                   currentIndex, currentValue, panicVal, ret, propagated,
                   origin>>

\* lines 155-184: loop head, reset of the context, call of the handler;
\* when the range is exhausted the loop ends
LoopHead ==
    /\ pc = "iter"
    /\ UNCHANGED <<accessVars, filterVars, fecVars, pureVars, recordVars>>
    /\ IF i < Len(input)
       THEN /\ stopped' = FALSE
            /\ continued' = FALSE
            /\ errOnStopped' = <<>>
            /\ errOnContinued' = <<>>
            /\ hasValue' = FALSE
            /\ currentIndex' = i
            /\ pc' = "handler"
            /\ hstate' = "body"
            /\ log' = Append(log, LogEntry(i, "Invoke", 0, <<>>, NoPanic))
       ELSE /\ pc' = "ret"
            /\ UNCHANGED <<stopped, continued, errOnStopped, errOnContinued,
                           hasValue, currentIndex, hstate, log>>
    /\ UNCHANGED <<input, inputNil, handlerNil, i, result, errs,
                   currentValue, panicVal, ret, propagated, origin>>

\* collectorContextImpl.CurrentElem (slice.go:45-47) with the elemGetter of
\* lines 143-145: the current index and input[index]
CurrentElem == <<currentIndex, At(input, currentIndex)>>

\* TRUE while the step function (its body or a deferred function of it that
\* recovered) can execute statements
HandlerRunning == pc = "handler" /\ hstate \in {"body", "deferred"}

\* SetValue that keeps the first value set in an invocation
MutSetValueFirstWins(value) ==
    /\ HandlerRunning
    /\ currentValue' = IF hasValue THEN currentValue ELSE value
    /\ hasValue' = TRUE
    /\ log' = Append(log, LogEntry(currentIndex, "SetValue", value, <<>>, NoPanic))
    /\ UNCHANGED <<input, inputNil, handlerNil, pc, i, result, errs,
                   continued, stopped, errOnStopped, errOnContinued,
                   currentIndex, hstate, panicVal, ret, propagated, origin>>

\* collectorContextImpl.SetValue (slice.go:50-53)
SetValue(value) ==
    /\ HandlerRunning
    /\ currentValue' = value
    /\ hasValue' = TRUE
    /\ log' = Append(log, LogEntry(currentIndex, "SetValue", value, <<>>, NoPanic))
    /\ UNCHANGED <<input, inputNil, handlerNil, pc, i, result, errs,
                   continued, stopped, errOnStopped, errOnContinued,
                   currentIndex, hstate, panicVal, ret, propagated, origin>>

\* Continue that sets the flag and returns to its caller instead of panicking
MutContinueNoPanic(es) ==
    /\ HandlerRunning
    /\ errOnContinued' = errOnContinued
           \o ElemErrorsOf(es, currentIndex, At(input, currentIndex))
    /\ continued' = TRUE
    /\ log' = Append(log, LogEntry(currentIndex, "Continue", 0, es, NoPanic))
    /\ UNCHANGED <<input, inputNil, handlerNil, pc, i, result, errs,
                   stopped, errOnStopped, currentIndex, currentValue,
                   hasValue, hstate, panicVal, ret, propagated, origin>>

\* collectorContextImpl.Continue (slice.go:61-73)
Continue(es) ==
    /\ HandlerRunning
    /\ errOnContinued' = errOnContinued
           \o ElemErrorsOf(es, currentIndex, At(input, currentIndex))
    /\ continued' = TRUE
    /\ panicVal' = sigContinue
    /\ hstate' = "panicking"
    /\ log' = Append(log, LogEntry(currentIndex, "Continue", 0, es, NoPanic))
    /\ UNCHANGED <<input, inputNil, handlerNil, pc, i, result, errs,
                   stopped, errOnStopped, currentIndex, currentValue,
                   hasValue, ret, propagated, origin>>

\* collectorContextImpl.Stop (slice.go:76-88)
Stop(es) ==
    /\ HandlerRunning
    /\ errOnStopped' = errOnStopped
           \o ElemErrorsOf(es, currentIndex, At(input, currentIndex))
    /\ stopped' = TRUE
    /\ panicVal' = sigStop
    /\ hstate' = "panicking"
    /\ log' = Append(log, LogEntry(currentIndex, "Stop", 0, es, NoPanic))
    /\ UNCHANGED <<input, inputNil, handlerNil, pc, i, result, errs,
                   continued, errOnContinued, currentIndex, currentValue,
                   hasValue, ret, propagated, origin>>

\* the step function panics with a value of its own
HandlerPanic(p) ==
    /\ HandlerRunning
    /\ panicVal' = p
    /\ hstate' = "panicking"
    /\ log' = Append(log, LogEntry(currentIndex, "Panic", 0, <<>>, p))
    /\ UNCHANGED <<input, inputNil, handlerNil, pc, i, result, errs,
                   continued, stopped, errOnStopped, errOnContinued,
                   currentIndex, currentValue, hasValue, ret, propagated,
                   origin>>

\* a deferred function of the step function calls recover(): the panic in
\* flight stops there and the deferred function goes on running
HandlerRecover ==
    /\ pc = "handler"
    /\ hstate = "panicking"
    /\ panicVal' = NoPanic
    /\ hstate' = "deferred"
    /\ log' = Append(log, LogEntry(currentIndex, "Recover", 0, <<>>, panicVal))
    /\ UNCHANGED <<input, inputNil, handlerNil, pc, i, result, errs,
                   continued, stopped, errOnStopped, errOnContinued,
                   currentIndex, currentValue, hasValue, ret, propagated,
                   origin>>

\* lines 168-185, normal path: handler(c) returns, recover() yields nil
HandlerReturn ==
    /\ HandlerRunning
    /\ pc' = "decide"
    /\ hstate' = "idle"
    /\ log' = Append(log, LogEntry(currentIndex, "Return", 0, <<>>, NoPanic))
    /\ UNCHANGED <<input, inputNil, handlerNil, i, result, errs,
                   continued, stopped, errOnStopped, errOnContinued,
                   currentIndex, currentValue, hasValue, panicVal, ret,
                   propagated, origin>>

\* a deferred recover that swallows every panic: a foreign panic value is
\* treated like a skip
MutCollectRecoverSwallow ==
    /\ pc = "handler"
    /\ UNCHANGED <<accessVars, filterVars, fecVars, pureVars, recordVars>>
    /\ hstate = "panicking"
    /\ hstate' = "idle"
    /\ panicVal' = NoPanic
    /\ pc' = "decide"
    /\ IF panicVal = sigStop
       THEN /\ stopped' = TRUE
            /\ UNCHANGED continued
       ELSE /\ continued' = TRUE
            /\ UNCHANGED stopped
    /\ UNCHANGED <<input, inputNil, handlerNil, i, result, errs,
                   errOnStopped, errOnContinued, currentIndex, currentValue,
                   hasValue, ret, propagated, log, origin>>

\* lines 169-183: the deferred function of Collect's closure recovers the
\* panic that left handler(c)
CollectRecover ==
    /\ pc = "handler"
    /\ UNCHANGED <<accessVars, filterVars, fecVars, pureVars, recordVars>>
    /\ hstate = "panicking"
    /\ hstate' = "idle"
    /\ panicVal' = NoPanic
    /\ IF panicVal = sigStop
       THEN /\ stopped' = TRUE
            /\ pc' = "decide"
            /\ UNCHANGED <<continued, propagated>>
       ELSE IF panicVal = sigContinue
       THEN /\ continued' = TRUE
            /\ pc' = "decide"
            /\ UNCHANGED <<stopped, propagated>>
       ELSE /\ propagated' = panicVal
            /\ pc' = "panicked"
            /\ UNCHANGED <<stopped, continued>>
    /\ UNCHANGED <<input, inputNil, handlerNil, i, result, errs,
                   errOnStopped, errOnContinued, currentIndex, currentValue,
                   hasValue, ret, log, origin>>

\* the decision with `continue` in place of `break` after a Stop
MutDecideNoBreak ==
    /\ pc = "decide"
    /\ UNCHANGED <<accessVars, filterVars, fecVars, pureVars, recordVars>>
    /\ IF stopped
       THEN /\ errs' = errs \o errOnStopped
            /\ i' = i + 1
            /\ pc' = "iter"
            /\ UNCHANGED <<result, origin>>
       ELSE IF continued
       THEN /\ errs' = errs \o errOnContinued
            /\ i' = i + 1
            /\ pc' = "iter"
            /\ UNCHANGED <<result, origin>>
       ELSE /\ IF hasValue
               THEN /\ result' = Append(result, currentValue)
                    /\ origin' = Append(origin, currentIndex)
               ELSE UNCHANGED <<result, origin>>
            /\ i' = i + 1
            /\ pc' = "iter"
            /\ UNCHANGED errs
    /\ UNCHANGED <<input, inputNil, handlerNil, continued, stopped,
                   errOnStopped, errOnContinued, currentIndex, currentValue,
                   hasValue, hstate, panicVal, ret, propagated, log>>

\* the decision without the `continue` of the skip branch: the errors are
\* merged and the value set before the skip is appended
MutDecideKeepOnContinue ==
    /\ pc = "decide"
    /\ UNCHANGED <<accessVars, filterVars, fecVars, pureVars, recordVars>>
    /\ IF stopped
       THEN /\ errs' = errs \o errOnStopped
            /\ pc' = "ret"
            /\ UNCHANGED <<i, result, origin>>
       ELSE /\ errs' = IF continued THEN errs \o errOnContinued ELSE errs
            /\ IF hasValue
               THEN /\ result' = Append(result, currentValue)
                    /\ origin' = Append(origin, currentIndex)
               ELSE UNCHANGED <<result, origin>>
            /\ i' = i + 1
            /\ pc' = "iter"
    /\ UNCHANGED <<input, inputNil, handlerNil, continued, stopped,
                   errOnStopped, errOnContinued, currentIndex, currentValue,
                   hasValue, hstate, panicVal, ret, propagated, log>>

\* lines 187-203: the decision taken after the closure returned
Decide ==
    /\ pc = "decide"
    /\ UNCHANGED <<accessVars, filterVars, fecVars, pureVars, recordVars>>
    /\ IF stopped
       THEN /\ errs' = errs \o errOnStopped
            /\ pc' = "ret"
            /\ UNCHANGED <<i, result, origin>>
       ELSE IF continued
       THEN /\ errs' = errs \o errOnContinued
            /\ i' = i + 1
            /\ pc' = "iter"
            /\ UNCHANGED <<result, origin>>
       ELSE /\ IF hasValue
               THEN /\ result' = Append(result, currentValue)
                    /\ origin' = Append(origin, currentIndex)
               ELSE UNCHANGED <<result, origin>>
            /\ i' = i + 1
            /\ pc' = "iter"
            /\ UNCHANGED errs
    /\ UNCHANGED <<input, inputNil, handlerNil, continued, stopped,
                   errOnStopped, errOnContinued, currentIndex, currentValue,
                   hasValue, hstate, panicVal, ret, propagated, log>>

\* lines 204-207
CollectReturn ==
    /\ pc = "ret"
    /\ UNCHANGED <<accessVars, filterVars, fecVars, pureVars, recordVars>>
    /\ ret' = IF Len(errs) = 0
              THEN [returned |-> TRUE, results |-> result,
                    errNil |-> TRUE, err |-> <<>>]
              ELSE [returned |-> TRUE, results |-> result,
                    errNil |-> FALSE, err |-> errs]
    /\ pc' = "done"
    /\ UNCHANGED <<input, inputNil, handlerNil, i, result, errs, continued,
                   stopped, errOnStopped, errOnContinued, currentIndex,
                   currentValue, hasValue, hstate, panicVal, propagated,
                   log, origin>>

\* the variadic error lists the step function passes to Continue / Stop
ErrArgs == {<<>>, <<NilErr>>, <<"e1">>, <<"e2", NilErr, "e1">>}

\* number of SetValue calls made so far in the current invocation
SetsInCall ==
    Cardinality({j \in 1..Len(log) :
                    log[j].op = "SetValue" /\ log[j].idx = currentIndex})

\* The value the modelled step function passes to SetValue: it tells the
\* index and the rank of the call within the invocation, so that every value
\* in the output names the call that produced it.
ValueOf(index, n) == 10 * (index + 1) + n

\* ---- an arbitrary step function handed to Collect: at each point it calls
\* ---- one method of the context, panics, recovers or returns
CallSetValue ==
    /\ filterPc = "none"
    /\ CallBudget
    /\ SetValue(ValueOf(currentIndex, SetsInCall + 1))
    /\ UNCHANGED <<accessVars, filterVars, fecVars, pureVars, recordVars>>

CallContinue ==
    /\ filterPc = "none"
    /\ CallBudget
    /\ \E es \in ErrArgs : Continue(es)
    /\ UNCHANGED <<accessVars, filterVars, fecVars, pureVars, recordVars>>

CallStop ==
    /\ filterPc = "none"
    /\ CallBudget
    /\ \E es \in ErrArgs : Stop(es)
    /\ UNCHANGED <<accessVars, filterVars, fecVars, pureVars, recordVars>>

RaisePanic ==
    /\ filterPc = "none"
    /\ CallBudget
    /\ \E p \in PanicVals : HandlerPanic(p)
    /\ UNCHANGED <<accessVars, filterVars, fecVars, pureVars, recordVars>>

StepRecovers ==
    /\ filterPc = "none"
    /\ CallBudget
    /\ HandlerRecover
    /\ UNCHANGED <<accessVars, filterVars, fecVars, pureVars, recordVars>>

StepReturns ==
    /\ filterPc = "none"
    /\ HandlerReturn
    /\ UNCHANGED <<accessVars, filterVars, fecVars, pureVars, recordVars>>

\* ------------------------------------------------------------------------
\* Slice() and CurrentResult() (slice.go:41-43, 56-58, 133-153)
\* ------------------------------------------------------------------------

\* the value a step function writes into a slice it was handed
Scribble == 0

Scribbled(s) == [j \in 1..Len(s) |-> Scribble]

\* a sliceGetter that hands out the input itself
MutSliceGetterReturnsInput ==
    /\ HandlerRunning
    /\ sliceRet' = Slice(FALSE, input)
    /\ sliceAlias' = "input"
    /\ log' = Append(log, LogEntry(currentIndex, "Slice", 0, <<>>, NoPanic))
    /\ UNCHANGED <<input, inputNil, handlerNil, pc, i, result, errs,
                   continued, stopped, errOnStopped, errOnContinued,
                   currentIndex, currentValue, hasValue, hstate, panicVal,
                   ret, propagated, origin>>
    /\ UNCHANGED <<input0, copied, copies, snap, snapAlias>>

\* collectorContextImpl.Slice with the sliceGetter of lines 133-142: the
\* copy is made when c.copied is nil, and c.copied is what is returned
SliceGetter ==
    /\ HandlerRunning
    /\ IF copied.isNil
       THEN /\ copied' = Slice(FALSE, input)
            /\ copies' = copies + 1
       ELSE UNCHANGED <<copied, copies>>
    /\ sliceRet' = copied'
    /\ sliceAlias' = "copied"
    /\ log' = Append(log, LogEntry(currentIndex, "Slice", 0, <<>>, NoPanic))
    /\ UNCHANGED <<input, inputNil, handlerNil, pc, i, result, errs,
                   continued, stopped, errOnStopped, errOnContinued,
                   currentIndex, currentValue, hasValue, hstate, panicVal,
                   ret, propagated, origin>>
    /\ UNCHANGED <<input0, snap, snapAlias>>

\* the step function overwrites the elements of the slice Slice() returned
\* to it, in this invocation or an earlier one; the write lands in the
\* array behind that slice
WriteSlice ==
    /\ HandlerRunning
    /\ sliceAlias # "none"
    /\ IF sliceAlias = "copied"
       THEN /\ copied' = Slice(FALSE, Scribbled(copied.elems))
            /\ UNCHANGED input
       ELSE /\ input' = Scribbled(input)
            /\ UNCHANGED copied
    /\ log' = Append(log, LogEntry(currentIndex, "WriteSlice", 0, <<>>, NoPanic))
    /\ UNCHANGED <<inputNil, handlerNil, pc, i, result, errs,
                   continued, stopped, errOnStopped, errOnContinued,
                   currentIndex, currentValue, hasValue, hstate, panicVal,
                   ret, propagated, origin>>
    /\ UNCHANGED <<input0, copies, sliceRet, sliceAlias, snap, snapAlias>>

\* a resultGetter that hands out result itself
MutResultGetterReturnsResult ==
    /\ HandlerRunning
    /\ snap' = IF Len(result) = 0 THEN NilSlice ELSE Slice(FALSE, result)
    /\ snapAlias' = "result"
    /\ log' = Append(log,
                     LogEntry(currentIndex, "CurrentResult", 0, <<>>, NoPanic))
    /\ UNCHANGED <<input, inputNil, handlerNil, pc, i, result, errs,
                   continued, stopped, errOnStopped, errOnContinued,
                   currentIndex, currentValue, hasValue, hstate, panicVal,
                   ret, propagated, origin>>
    /\ UNCHANGED <<input0, copied, copies, sliceRet, sliceAlias>>

\* collectorContextImpl.CurrentResult with the resultGetter of lines
\* 146-153: nil when result is empty, else a fresh copy of result
ResultGetter ==
    /\ HandlerRunning
    /\ snap' = IF Len(result) = 0 THEN NilSlice ELSE Slice(FALSE, result)
    /\ snapAlias' = "fresh"
    /\ log' = Append(log,
                     LogEntry(currentIndex, "CurrentResult", 0, <<>>, NoPanic))
    /\ UNCHANGED <<input, inputNil, handlerNil, pc, i, result, errs,
                   continued, stopped, errOnStopped, errOnContinued,
                   currentIndex, currentValue, hasValue, hstate, panicVal,
                   ret, propagated, origin>>
    /\ UNCHANGED <<input0, copied, copies, sliceRet, sliceAlias>>

\* the step function overwrites the elements of the slice CurrentResult()
\* returned to it; the write lands in the array behind that slice, which
\* is result only if the slice was not a copy
WriteResult ==
    /\ HandlerRunning
    /\ snapAlias # "none"
    /\ Len(snap.elems) > 0
    /\ IF snapAlias = "result"
       THEN result' = [j \in 1..Len(result) |->
                          IF j <= Len(snap.elems) THEN Scribble ELSE result[j]]
       ELSE UNCHANGED result
    /\ log' = Append(log,
                     LogEntry(currentIndex, "WriteResult", 0, <<>>, NoPanic))
    /\ UNCHANGED <<input, inputNil, handlerNil, pc, i, errs,
                   continued, stopped, errOnStopped, errOnContinued,
                   currentIndex, currentValue, hasValue, hstate, panicVal,
                   ret, propagated, origin>>
    /\ UNCHANGED accessVars

\* ---- a step function that also reads and writes the slices of the context
CallSlice ==
    /\ filterPc = "none"
    /\ CallBudget
    /\ SliceGetter
    /\ UNCHANGED <<filterVars, fecVars, pureVars, recordVars>>

StepWritesSlice ==
    /\ filterPc = "none"
    /\ CallBudget
    /\ WriteSlice
    /\ UNCHANGED <<filterVars, fecVars, pureVars, recordVars>>

CallCurrentResult ==
    /\ filterPc = "none"
    /\ CallBudget
    /\ ResultGetter
    /\ UNCHANGED <<filterVars, fecVars, pureVars, recordVars>>

StepWritesResult ==
    /\ filterPc = "none"
    /\ CallBudget
    /\ WriteResult
    /\ UNCHANGED <<filterVars, fecVars, pureVars, recordVars>>

\* the step function skips the element and attaches one error to it
SkipWithError ==
    /\ filterPc = "none"
    /\ CallBudget
    /\ Continue(<<"e1">>)
    /\ UNCHANGED <<accessVars, filterVars, fecVars, pureVars, recordVars>>

NextAccess ==
    \/ CollectEntry
    \/ LoopHead
    \/ CallSetValue
    \/ SkipWithError
    \/ CallSlice
    \/ StepWritesSlice
    \/ CallCurrentResult
    \/ StepWritesResult
    \/ StepReturns
    \/ CollectRecover
    \/ Decide
    \/ CollectReturn

Next ==
    \/ CollectEntry
    \/ LoopHead
    \/ CallSetValue
    \/ CallContinue
    \/ CallStop
    \/ RaisePanic
    \/ StepRecovers
    \/ StepReturns
    \/ CollectRecover
    \/ Decide
    \/ CollectReturn

Spec == Init /\ [][Next]_vars

SpecAccess == Init /\ [][NextAccess]_vars

\* ------------------------------------------------------------------------
\* Filter (slice.go:211-223): Collect driven by Filter's step closure
\* ------------------------------------------------------------------------

\* a call Filter(input, predicate) about to start
FilterInit ==
    /\ input \in SeqsUpTo(Elems, MaxLen)
    /\ inputNil \in BOOLEAN
    /\ inputNil => input = <<>>
    /\ handlerNil = FALSE
    /\ pc = "idle"
    /\ CollectLocalsInit
    /\ predicate \in [Elems -> BOOLEAN]
    /\ predicateNil \in BOOLEAN
    /\ filterPc = "start"
    /\ stepPc = "idle"
    /\ val = 0
    /\ filterRet = NoFilterReturn
    /\ FecIdle
    /\ PureIdle
    /\ RecordIdle

\* lines 212-215: the early return, else the call of Collect with the closure
FilterEntry ==
    /\ filterPc = "start"
    /\ IF Len(input) = 0 \/ predicateNil
       THEN /\ filterRet' = [returned |-> TRUE, results |-> input]
            /\ filterPc' = "done"
            /\ UNCHANGED pc
       ELSE /\ pc' = "start"
            /\ filterPc' = "collect"
            /\ UNCHANGED filterRet
    /\ UNCHANGED <<input, inputNil, handlerNil, i, result, errs, continued,
                   stopped, errOnStopped, errOnContinued, currentIndex,
                   currentValue, hasValue, hstate, panicVal, ret, propagated,
                   log, origin, predicate, predicateNil, stepPc, val>>
    /\ UNCHANGED <<accessVars, fecVars, pureVars, recordVars>>

\* line 216: _, val := c.CurrentElem()   (slice.go:45-47, 143-145)
FilterStepElem ==
    /\ filterPc = "collect"
    /\ pc = "handler"
    /\ hstate = "body"
    /\ stepPc = "idle"
    /\ val' = At(input, currentIndex)
    /\ stepPc' = "test"
    /\ UNCHANGED <<collectVars, predicate, predicateNil, filterPc, filterRet>>
    /\ UNCHANGED <<accessVars, fecVars, pureVars, recordVars>>

\* the closure with Stop in place of Continue
MutFilterStepTestStops ==
    /\ filterPc = "collect"
    /\ stepPc = "test"
    /\ IF ~predicate[val]
       THEN /\ Stop(<<>>)
            /\ stepPc' = "idle"
       ELSE /\ stepPc' = "set"
            /\ UNCHANGED collectVars
    /\ UNCHANGED <<predicate, predicateNil, filterPc, val, filterRet>>
    /\ UNCHANGED <<accessVars, fecVars, pureVars, recordVars>>

\* lines 217-219: if !predicate(val) { c.Continue() }
FilterStepTest ==
    /\ filterPc = "collect"
    /\ stepPc = "test"
    /\ IF ~predicate[val]
       THEN /\ Continue(<<>>)
            /\ stepPc' = "idle"
       ELSE /\ stepPc' = "set"
            /\ UNCHANGED collectVars
    /\ UNCHANGED <<predicate, predicateNil, filterPc, val, filterRet>>
    /\ UNCHANGED <<accessVars, fecVars, pureVars, recordVars>>

\* line 220: c.SetValue(val)
FilterStepSet ==
    /\ filterPc = "collect"
    /\ stepPc = "set"
    /\ SetValue(val)
    /\ stepPc' = "end"
    /\ UNCHANGED <<predicate, predicateNil, filterPc, val, filterRet>>
    /\ UNCHANGED <<accessVars, fecVars, pureVars, recordVars>>

\* line 221: the closure returns
FilterStepEnd ==
    /\ filterPc = "collect"
    /\ stepPc = "end"
    /\ HandlerReturn
    /\ stepPc' = "idle"
    /\ UNCHANGED <<predicate, predicateNil, filterPc, val, filterRet>>
    /\ UNCHANGED <<accessVars, fecVars, pureVars, recordVars>>

\* lines 215, 222: res, _ := Collect(...); return res
FilterReturn ==
    /\ filterPc = "collect"
    /\ pc = "done"
    /\ filterRet' = [returned |-> TRUE, results |-> ret.results]
    /\ filterPc' = "done"
    /\ UNCHANGED <<collectVars, predicate, predicateNil, stepPc, val>>
    /\ UNCHANGED <<accessVars, fecVars, pureVars, recordVars>>

NextFilter ==
    \/ FilterEntry
    \/ CollectEntry
    \/ LoopHead
    \/ FilterStepElem
    \/ FilterStepTest
    \/ FilterStepSet
    \/ FilterStepEnd
    \/ CollectRecover
    \/ Decide
    \/ CollectReturn
    \/ FilterReturn

SpecFilter == FilterInit /\ [][NextFilter]_vars

\* ------------------------------------------------------------------------
\* Chunk (slice.go:310-327)
\* ------------------------------------------------------------------------

\* the loop of Chunk with `size <= len(input)` as its condition
RECURSIVE MutChunkLoopCutsAtEnd(_, _, _)
MutChunkLoopCutsAtEnd(rest, size, acc) ==
    IF size <= Len(rest)
    THEN MutChunkLoopCutsAtEnd(SubSeq(rest, size + 1, Len(rest)), size,
                               Append(acc, SubSeq(rest, 1, size)))
    ELSE Append(acc, rest)

\* lines 322-325: the loop cutting `size` elements off the front while more
\* than `size` remain, then the rest as the last chunk
RECURSIVE ChunkLoop(_, _, _)
ChunkLoop(rest, size, acc) ==
    IF size < Len(rest)
    THEN ChunkLoop(SubSeq(rest, size + 1, Len(rest)), size,
                   Append(acc, SubSeq(rest, 1, size)))
    ELSE Append(acc, rest)

Chunk(in, size) ==
    IF in.isNil THEN Slice(TRUE, <<>>)
    ELSE IF Len(in.elems) = 0 THEN Slice(FALSE, <<>>)
    ELSE Slice(FALSE, ChunkLoop(in.elems, IF size <= 0 THEN 1 ELSE size, <<>>))

\* Flatten (slice.go:381-399) ---------------------------------------------

\* a Flatten that declares `var result []In` instead of make([]In, 0, n)
RECURSIVE MutFlattenLoopNilStart(_, _)
MutFlattenLoopNilStart(rest, acc) ==
    IF Len(rest) = 0
    THEN Slice(Len(acc) = 0, acc)
    ELSE MutFlattenLoopNilStart(Tail(rest), acc \o Head(rest).elems)

\* lines 390-398: result := make([]In, 0, totalLen), then
\* result = append(result, s...) for each s of the input in order
RECURSIVE FlattenLoop(_, _)
FlattenLoop(rest, acc) ==
    IF Len(rest) = 0
    THEN Slice(FALSE, acc)
    ELSE FlattenLoop(Tail(rest), acc \o Head(rest).elems)

\* lines 381-389: nil for a nil input, an empty slice for an empty one
Flatten(in) ==
    IF in.isNil THEN NilSlice
    ELSE IF Len(in.elems) = 0 THEN Slice(FALSE, <<>>)
    ELSE FlattenLoop(in.elems, <<>>)

\* the sizes handed to Chunk: negative, zero and positive ones, one of them
\* larger than every bounded input is long
Sizes == (0 - 1)..(MaxLen + 1)

\* the inner slices handed to Flatten, nil ones included
InnerSlices == {NilSlice} \cup {Slice(FALSE, e) : e \in SeqsUpTo(Elems, MaxChunkSize)}

\* a call Chunk(input, size) or Flatten(input) about to start
PureInit ==
    /\ CollectIdle
    /\ FilterIdle
    /\ FecIdle
    /\ RecordIdle
    /\ \/ /\ pureOp = "Chunk"
          /\ pureInput \in
                {NilSlice} \cup {Slice(FALSE, e) : e \in SeqsUpTo(Elems, MaxLen)}
          /\ pureSize \in Sizes
       \/ /\ pureOp = "Flatten"
          /\ pureInput \in
                {NilSlice} \cup {Slice(FALSE, e) : e \in SeqsUpTo(InnerSlices, MaxLen)}
          /\ pureSize = 0
    /\ pureResult = NilSlice
    /\ pureFlat = NilSlice
    /\ purePc = "start"

\* slice.go:310-327: the call of Chunk returns
ChunkCall ==
    /\ purePc = "start"
    /\ pureOp = "Chunk"
    /\ pureResult' = Chunk(pureInput, pureSize)
    /\ purePc' = "returned"
    /\ UNCHANGED <<pureOp, pureInput, pureSize, pureFlat>>
    /\ UNCHANGED <<collectVars, accessVars, filterVars, fecVars, recordVars>>

\* slice.go:381-399: the call of Flatten returns
FlattenCall ==
    /\ purePc = "start"
    /\ pureOp = "Flatten"
    /\ pureResult' = Flatten(pureInput)
    /\ purePc' = "returned"
    /\ UNCHANGED <<pureOp, pureInput, pureSize, pureFlat>>
    /\ UNCHANGED <<collectVars, accessVars, filterVars, fecVars, recordVars>>

\* slice.go:381-399: Flatten is called on the chunks Chunk returned (each
\* chunk is a non-nil sub-slice of the input)
FlattenOfChunks ==
    /\ purePc = "returned"
    /\ pureOp = "Chunk"
    /\ pureFlat' = Flatten(Slice(pureResult.isNil,
                                 [c \in 1..Len(pureResult.elems) |->
                                     Slice(FALSE, pureResult.elems[c])]))
    /\ purePc' = "flattened"
    /\ UNCHANGED <<pureOp, pureInput, pureSize, pureResult>>
    /\ UNCHANGED <<collectVars, accessVars, filterVars, fecVars, recordVars>>

NextPure ==
    \/ ChunkCall
    \/ FlattenCall
    \/ FlattenOfChunks

SpecPure == PureInit /\ [][NextPure]_vars

\* ------------------------------------------------------------------------
\* ForEachChunk (slice.go:335-376)
\* ------------------------------------------------------------------------

\* a call ForEachChunk(input, chunkSize, concurrency, handler) about to start
FecInit ==
    /\ input = <<>>
    /\ inputNil = FALSE
    /\ handlerNil = FALSE
    /\ pc = "idle"
    /\ CollectLocalsInit
    /\ FilterIdle
    /\ PureIdle
    /\ RecordIdle
    /\ fecInput \in {[j \in 1..n |-> j] : n \in 0..MaxLen}
    /\ chunkSize \in 0..MaxChunkSize
    /\ concurrency \in 0..MaxConcurrency
    /\ fecPc = "start"
    /\ chunks = <<>>
    /\ next = 0
    /\ sem = 0
    /\ errChan = <<>>
    /\ wg = 0
    /\ worker = [j \in 0..(MaxLen - 1) |-> NotStarted]
    /\ fecRet = NoFecReturn
    /\ calls = [j \in 0..(MaxLen - 1) |-> 0]
    /\ outcome = [j \in 0..(MaxLen - 1) |-> "none"]
    /\ processed = <<>>

\* lines 336-354: the early return, the chunks, the choice of the mode
FecEntry ==
    /\ fecPc = "start"
    /\ IF Len(fecInput) = 0
       THEN /\ fecRet' = [returned |-> TRUE, err |-> NoError]
            /\ fecPc' = "done"
            /\ UNCHANGED chunks
       ELSE /\ chunks' = Chunk(Slice(FALSE, fecInput), chunkSize).elems
            /\ fecPc' = IF concurrency <= 1 THEN "seq" ELSE "dispatch"
            /\ UNCHANGED fecRet
    /\ UNCHANGED <<fecInput, chunkSize, concurrency, next, sem, errChan, wg,
                   worker>>
    /\ UNCHANGED <<collectVars, accessVars, filterVars, pureVars, recordVars>>
    /\ UNCHANGED <<calls, outcome, processed>>

\* the sequential loop running over the chunks from the last to the first
MutSeqHandlerReturnsReversed ==
    /\ fecPc = "seqHandler"
    /\ \E e \in {NoError, HandlerError(next)} :
          /\ outcome' = [outcome EXCEPT
                             ![next] = IF e.isNil THEN "nil" ELSE "err"]
          /\ IF ~e.isNil
             THEN /\ fecRet' = [returned |-> TRUE, err |-> e]
                  /\ fecPc' = "done"
                  /\ UNCHANGED next
             ELSE /\ next' = next + 1
                  /\ fecPc' = "seq"
                  /\ UNCHANGED fecRet
    /\ processed' = processed \o At(chunks, Len(chunks) - 1 - next)
    /\ UNCHANGED <<fecInput, chunkSize, concurrency, chunks, sem, errChan,
                   wg, worker>>
    /\ UNCHANGED <<collectVars, accessVars, filterVars, pureVars, recordVars>>
    /\ UNCHANGED calls

\* lines 342-343, 347: the sequential loop calls the handler on the next
\* chunk, or returns nil after the last one
SeqNext ==
    /\ fecPc = "seq"
    /\ IF next < Len(chunks)
       THEN /\ fecPc' = "seqHandler"
            /\ calls' = [calls EXCEPT ![next] = @ + 1]
            /\ UNCHANGED fecRet
       ELSE /\ fecRet' = [returned |-> TRUE, err |-> NoError]
            /\ fecPc' = "done"
            /\ UNCHANGED calls
    /\ UNCHANGED <<fecInput, chunkSize, concurrency, chunks, next, sem,
                   errChan, wg, worker>>
    /\ UNCHANGED <<collectVars, accessVars, filterVars, pureVars, recordVars>>
    /\ UNCHANGED <<outcome, processed>>

\* lines 343-345: the handler returns to the sequential loop
SeqHandlerReturns ==
    /\ fecPc = "seqHandler"
    /\ \E e \in {NoError, HandlerError(next)} :
          /\ outcome' = [outcome EXCEPT
                             ![next] = IF e.isNil THEN "nil" ELSE "err"]
          /\ IF ~e.isNil
             THEN /\ fecRet' = [returned |-> TRUE, err |-> e]
                  /\ fecPc' = "done"
                  /\ UNCHANGED next
             ELSE /\ next' = next + 1
                  /\ fecPc' = "seq"
                  /\ UNCHANGED fecRet
    /\ processed' = processed \o At(chunks, next)
    /\ UNCHANGED <<fecInput, chunkSize, concurrency, chunks, sem, errChan,
                   wg, worker>>
    /\ UNCHANGED <<collectVars, accessVars, filterVars, pureVars, recordVars>>
    /\ UNCHANGED calls

\* the dispatching loop without `sem <- struct{}{}`
MutDispatchNoAcquire ==
    /\ fecPc = "dispatch"
    /\ next < Len(chunks)
    /\ wg' = wg + 1
    /\ worker' = [worker EXCEPT ![next] = [st |-> "ready", err |-> NoError]]
    /\ next' = next + 1
    /\ UNCHANGED <<fecInput, chunkSize, concurrency, fecPc, chunks, sem,
                   errChan, fecRet>>
    /\ UNCHANGED <<collectVars, accessVars, filterVars, pureVars, recordVars>>
    /\ UNCHANGED <<calls, outcome, processed>>

\* the dispatching loop ranging over the chunks from the last to the first
MutDispatchLastFirst ==
    /\ fecPc = "dispatch"
    /\ next < Len(chunks)
    /\ sem < concurrency
    /\ sem' = sem + 1
    /\ wg' = wg + 1
    /\ worker' = [worker EXCEPT
                     ![Len(chunks) - 1 - next] = [st |-> "ready", err |-> NoError]]
    /\ next' = next + 1
    /\ UNCHANGED <<fecInput, chunkSize, concurrency, fecPc, chunks, errChan,
                   fecRet>>
    /\ UNCHANGED <<collectVars, accessVars, filterVars, pureVars, recordVars>>
    /\ UNCHANGED <<calls, outcome, processed>>

\* the dispatching loop with `if len(errChan) > 0 { break }` at its head
MutDispatchStopsOnError ==
    /\ fecPc = "dispatch"
    /\ next < Len(chunks)
    /\ IF Len(errChan) > 0
       THEN /\ next' = Len(chunks)
            /\ UNCHANGED <<sem, wg, worker>>
       ELSE /\ sem < concurrency
            /\ sem' = sem + 1
            /\ wg' = wg + 1
            /\ worker' = [worker EXCEPT
                             ![next] = [st |-> "ready", err |-> NoError]]
            /\ next' = next + 1
    /\ UNCHANGED <<fecInput, chunkSize, concurrency, fecPc, chunks, errChan,
                   fecRet>>
    /\ UNCHANGED <<collectVars, accessVars, filterVars, pureVars, recordVars>>
    /\ UNCHANGED <<calls, outcome, processed>>

\* lines 356-359: sem <- struct{}{} (blocks while the channel is full),
\* wg.Add(1), go func(chunk)
Dispatch ==
    /\ fecPc = "dispatch"
    /\ next < Len(chunks)
    /\ sem < concurrency
    /\ sem' = sem + 1
    /\ wg' = wg + 1
    /\ worker' = [worker EXCEPT ![next] = [st |-> "ready", err |-> NoError]]
    /\ next' = next + 1
    /\ UNCHANGED <<fecInput, chunkSize, concurrency, fecPc, chunks, errChan,
                   fecRet>>
    /\ UNCHANGED <<collectVars, accessVars, filterVars, pureVars, recordVars>>
    /\ UNCHANGED <<calls, outcome, processed>>

\* line 362: the goroutine of chunk j calls handler(c)
WorkerStart(j) ==
    /\ worker[j].st = "ready"
    /\ worker' = [worker EXCEPT ![j].st = "handler"]
    /\ calls' = [calls EXCEPT ![j] = @ + 1]
    /\ UNCHANGED <<fecInput, chunkSize, concurrency, fecPc, chunks, next,
                   sem, errChan, wg, fecRet>>
    /\ UNCHANGED <<collectVars, accessVars, filterVars, pureVars, recordVars>>
    /\ UNCHANGED <<outcome, processed>>

\* line 362: handler(c) returns nil or an error
WorkerHandlerReturns(j) ==
    /\ worker[j].st = "handler"
    /\ \E e \in {NoError, HandlerError(j)} :
          /\ worker' = [worker EXCEPT
                           ![j] = [st |-> IF e.isNil THEN "release" ELSE "send",
                                   err |-> e]]
          /\ outcome' = [outcome EXCEPT
                             ![j] = IF e.isNil THEN "nil" ELSE "err"]
    /\ UNCHANGED <<fecInput, chunkSize, concurrency, fecPc, chunks, next,
                   sem, errChan, wg, fecRet>>
    /\ UNCHANGED <<collectVars, accessVars, filterVars, pureVars, recordVars>>
    /\ UNCHANGED <<calls, processed>>

\* the goroutine with `errChan <- err` left out
MutWorkerSendDrops(j) ==
    /\ worker[j].st = "send"
    /\ worker' = [worker EXCEPT ![j].st = "release"]
    /\ UNCHANGED <<fecInput, chunkSize, concurrency, fecPc, chunks, next,
                   sem, errChan, wg, fecRet>>
    /\ UNCHANGED <<collectVars, accessVars, filterVars, pureVars, recordVars>>
    /\ UNCHANGED <<calls, outcome, processed>>

\* line 363: errChan <- err (blocks while the buffer of len(chunks) is full)
WorkerSend(j) ==
    /\ worker[j].st = "send"
    /\ Len(errChan) < Len(chunks)
    /\ errChan' = Append(errChan, worker[j].err)
    /\ worker' = [worker EXCEPT ![j].st = "release"]
    /\ UNCHANGED <<fecInput, chunkSize, concurrency, fecPc, chunks, next,
                   sem, wg, fecRet>>
    /\ UNCHANGED <<collectVars, accessVars, filterVars, pureVars, recordVars>>
    /\ UNCHANGED <<calls, outcome, processed>>

\* the goroutine without the deferred `<-sem`: the token is never given back
MutWorkerReleaseKeepsToken(j) ==
    /\ worker[j].st = "release"
    /\ worker' = [worker EXCEPT ![j].st = "wgDone"]
    /\ UNCHANGED <<fecInput, chunkSize, concurrency, fecPc, chunks, next,
                   sem, errChan, wg, fecRet>>
    /\ UNCHANGED <<collectVars, accessVars, filterVars, pureVars, recordVars>>
    /\ UNCHANGED <<calls, outcome, processed>>

\* line 361: the deferred <-sem (blocks while the channel is empty)
WorkerRelease(j) ==
    /\ worker[j].st = "release"
    /\ sem > 0
    /\ sem' = sem - 1
    /\ worker' = [worker EXCEPT ![j].st = "wgDone"]
    /\ UNCHANGED <<fecInput, chunkSize, concurrency, fecPc, chunks, next,
                   errChan, wg, fecRet>>
    /\ UNCHANGED <<collectVars, accessVars, filterVars, pureVars, recordVars>>
    /\ UNCHANGED <<calls, outcome, processed>>

\* line 360: the deferred wg.Done(); the goroutine ends
WorkerDone(j) ==
    /\ worker[j].st = "wgDone"
    /\ wg' = wg - 1
    /\ worker' = [worker EXCEPT ![j].st = "exit"]
    /\ UNCHANGED <<fecInput, chunkSize, concurrency, fecPc, chunks, next,
                   sem, errChan, fecRet>>
    /\ UNCHANGED <<collectVars, accessVars, filterVars, pureVars, recordVars>>
    /\ UNCHANGED <<calls, outcome, processed>>

\* the return without wg.Wait()
MutWaitAndReturnNoWait ==
    /\ fecPc = "dispatch"
    /\ next = Len(chunks)
    /\ fecRet' = IF Len(errChan) > 0
                 THEN [returned |-> TRUE, err |-> Head(errChan)]
                 ELSE [returned |-> TRUE, err |-> NoError]
    /\ fecPc' = "done"
    /\ UNCHANGED <<fecInput, chunkSize, concurrency, chunks, next, sem,
                   errChan, wg, worker>>
    /\ UNCHANGED <<collectVars, accessVars, filterVars, pureVars, recordVars>>
    /\ UNCHANGED <<calls, outcome, processed>>

\* lines 368-375: wg.Wait() returns once the counter is zero, close(errChan),
\* the first buffered error is returned, nil when there is none
WaitAndReturn ==
    /\ fecPc = "dispatch"
    /\ next = Len(chunks)
    /\ wg = 0
    /\ fecRet' = IF Len(errChan) > 0
                 THEN [returned |-> TRUE, err |-> Head(errChan)]
                 ELSE [returned |-> TRUE, err |-> NoError]
    /\ fecPc' = "done"
    /\ UNCHANGED <<fecInput, chunkSize, concurrency, chunks, next, sem,
                   errChan, wg, worker>>
    /\ UNCHANGED <<collectVars, accessVars, filterVars, pureVars, recordVars>>
    /\ UNCHANGED <<calls, outcome, processed>>

Workers == 0..(MaxLen - 1)

StartWorker == \E j \in Workers : WorkerStart(j)

HandlerReturnsInWorker == \E j \in Workers : WorkerHandlerReturns(j)

SendError == \E j \in Workers : WorkerSend(j)

ReleaseToken == \E j \in Workers : WorkerRelease(j)

FinishWorker == \E j \in Workers : WorkerDone(j)

NextFec ==
    \/ FecEntry
    \/ SeqNext
    \/ SeqHandlerReturns
    \/ Dispatch
    \/ StartWorker
    \/ HandlerReturnsInWorker
    \/ SendError
    \/ ReleaseToken
    \/ FinishWorker
    \/ WaitAndReturn

SpecFec == FecInit /\ [][NextFec]_vars

\* lines 336-375 under the Go scheduler: while the main goroutine or a
\* goroutine of a chunk can take a step, one of them does; a handler
\* invocation that has started returns
SpecFecFair == FecInit /\ [][NextFec]_vars /\ WF_vars(NextFec)

\* ------------------------------------------------------------------------
\* package record (record.go): Merge, Associate, ToSet
\* ------------------------------------------------------------------------

\* map keys (type K) and map values (type V)
Keys == {1, 2}

Vals == {1, 2}

\* the value struct{}{} of a presence map
EmptyStruct == "struct{}{}"

\* the contents a map[K]V can have
MapsOver(K, V) == UNION {[D -> V] : D \in SUBSET K}

\* m[k] = v
MapPut(m, k, v) == [x \in (DOMAIN m) \cup {k} |-> IF x = k THEN v ELSE m[x]]

\* the content of the map a reference points to; a nil map reads as empty
Content(h, ref) == IF ref = NilMap THEN EmptyMap ELSE h[ref]

\* a call Merge(maps...) about to start: the maps that exist, and the
\* arguments, which may be nil and may name the same map twice
MergeInit ==
    /\ CollectIdle
    /\ FilterIdle
    /\ FecIdle
    /\ PureIdle
    /\ recOp = "Merge"
    /\ recPc = "start"
    /\ heap \in [1..MaxMaps -> MapsOver(Keys, Vals)]
    /\ heap0 = heap
    /\ maps \in SeqsUpTo(0..MaxMaps, MaxMaps)
    /\ recInput = NilSlice
    /\ transform = <<>>
    /\ mapIdx = 0
    /\ todo = {}
    /\ itemIdx = 0
    /\ recResult = NilMap
    /\ recRet = NoRecReturn
    /\ recSlice = NilSlice
    /\ mutated = "none"

\* a Merge that fills its first non-nil argument instead of a made map
MutMergeEntryFillsFirst ==
    /\ recOp = "Merge"
    /\ recPc = "start"
    /\ IF Len(maps) > 0 /\ maps[1] # NilMap
       THEN /\ recResult' = maps[1]
            /\ UNCHANGED heap
       ELSE /\ heap' = Append(heap, EmptyMap)
            /\ recResult' = Len(heap) + 1
    /\ mapIdx' = 0
    /\ recPc' = "mergeLoop"
    /\ UNCHANGED <<recOp, heap0, maps, recInput, transform, todo, itemIdx,
                   recRet>>
    /\ UNCHANGED <<collectVars, accessVars, filterVars, fecVars, pureVars>>
    /\ UNCHANGED <<recSlice, mutated>>

\* record.go:43-47: the size is summed up and result := make(map[K]V, size)
MergeEntry ==
    /\ recOp = "Merge"
    /\ recPc = "start"
    /\ heap' = Append(heap, EmptyMap)
    /\ recResult' = Len(heap) + 1
    /\ mapIdx' = 0
    /\ recPc' = "mergeLoop"
    /\ UNCHANGED <<recOp, heap0, maps, recInput, transform, todo, itemIdx,
                   recRet>>
    /\ UNCHANGED <<collectVars, accessVars, filterVars, fecVars, pureVars>>
    /\ UNCHANGED <<recSlice, mutated>>

\* record.go:48-49, 53: the outer loop takes the next argument map and
\* starts to range over it; after the last one Merge returns result
MergeNextMap ==
    /\ recOp = "Merge"
    /\ recPc = "mergeLoop"
    /\ IF mapIdx < Len(maps)
       THEN /\ todo' = DOMAIN Content(heap, At(maps, mapIdx))
            /\ recPc' = "mergeRange"
            /\ UNCHANGED recRet
       ELSE /\ recRet' = [returned |-> TRUE, ref |-> recResult]
            /\ recPc' = "done"
            /\ UNCHANGED todo
    /\ UNCHANGED <<recOp, heap, heap0, maps, recInput, transform, mapIdx,
                   itemIdx, recResult>>
    /\ UNCHANGED <<collectVars, accessVars, filterVars, fecVars, pureVars>>
    /\ UNCHANGED <<recSlice, mutated>>

\* record.go:49-51: the range over the map visits its entries in an order
\* Go does not fix; result[k] = v for each
MergeCopy ==
    /\ recOp = "Merge"
    /\ recPc = "mergeRange"
    /\ IF todo = {}
       THEN /\ mapIdx' = mapIdx + 1
            /\ recPc' = "mergeLoop"
            /\ UNCHANGED <<heap, todo>>
       ELSE /\ \E k \in todo :
                  /\ heap' = [heap EXCEPT
                                 ![recResult] =
                                     MapPut(@, k, heap[At(maps, mapIdx)][k])]
                  /\ todo' = todo \ {k}
            /\ UNCHANGED <<mapIdx, recPc>>
    /\ UNCHANGED <<recOp, heap0, maps, recInput, transform, itemIdx,
                   recResult, recRet>>
    /\ UNCHANGED <<collectVars, accessVars, filterVars, fecVars, pureVars>>
    /\ UNCHANGED <<recSlice, mutated>>

\* a call Associate(input, transform) about to start; transform[j] is the
\* pair transform returns for the item at position j
AssociateInit ==
    /\ CollectIdle
    /\ FilterIdle
    /\ FecIdle
    /\ PureIdle
    /\ recOp = "Associate"
    /\ recPc = "start"
    /\ heap = <<>>
    /\ heap0 = <<>>
    /\ maps = <<>>
    /\ \E in \in Inputs :
          /\ recInput \in {Slice(FALSE, in)} \cup
                           (IF Len(in) = 0 THEN {NilSlice} ELSE {})
          /\ transform \in [1..Len(in) -> Keys \X Vals]
    /\ mapIdx = 0
    /\ todo = {}
    /\ itemIdx = 0
    /\ recResult = NilMap
    /\ recRet = NoRecReturn
    /\ recSlice = NilSlice
    /\ mutated = "none"

\* record.go:96-99: nil for a nil input, else result := make(map[K]V, n)
AssociateEntry ==
    /\ recOp = "Associate"
    /\ recPc = "start"
    /\ IF recInput.isNil
       THEN /\ recRet' = [returned |-> TRUE, ref |-> NilMap]
            /\ recPc' = "done"
            /\ UNCHANGED <<heap, recResult>>
       ELSE /\ heap' = Append(heap, EmptyMap)
            /\ recResult' = Len(heap) + 1
            /\ recPc' = "loop"
            /\ UNCHANGED recRet
    /\ itemIdx' = 0
    /\ UNCHANGED <<recOp, heap0, maps, recInput, transform, mapIdx, todo>>
    /\ UNCHANGED <<collectVars, accessVars, filterVars, fecVars, pureVars>>
    /\ UNCHANGED <<recSlice, mutated>>

\* an Associate that keeps the first value of a key:
\* `if _, ok := result[k]; !ok { result[k] = v }`
MutAssociateStepFirstWins ==
    /\ recOp = "Associate"
    /\ recPc = "loop"
    /\ IF itemIdx < Len(recInput.elems)
       THEN /\ heap' = [heap EXCEPT
                           ![recResult] =
                               IF transform[itemIdx + 1][1] \in DOMAIN @
                               THEN @
                               ELSE MapPut(@, transform[itemIdx + 1][1],
                                           transform[itemIdx + 1][2])]
            /\ itemIdx' = itemIdx + 1
            /\ UNCHANGED <<recPc, recRet>>
       ELSE /\ recRet' = [returned |-> TRUE, ref |-> recResult]
            /\ recPc' = "done"
            /\ UNCHANGED <<heap, itemIdx>>
    /\ UNCHANGED <<recOp, heap0, maps, recInput, transform, mapIdx, todo,
                   recResult>>
    /\ UNCHANGED <<collectVars, accessVars, filterVars, fecVars, pureVars>>
    /\ UNCHANGED <<recSlice, mutated>>

\* record.go:100-104: k, v := transform(item); result[k] = v for the next
\* item; after the last one Associate returns result
AssociateStep ==
    /\ recOp = "Associate"
    /\ recPc = "loop"
    /\ IF itemIdx < Len(recInput.elems)
       THEN /\ heap' = [heap EXCEPT
                           ![recResult] =
                               MapPut(@, transform[itemIdx + 1][1],
                                      transform[itemIdx + 1][2])]
            /\ itemIdx' = itemIdx + 1
            /\ UNCHANGED <<recPc, recRet>>
       ELSE /\ recRet' = [returned |-> TRUE, ref |-> recResult]
            /\ recPc' = "done"
            /\ UNCHANGED <<heap, itemIdx>>
    /\ UNCHANGED <<recOp, heap0, maps, recInput, transform, mapIdx, todo,
                   recResult>>
    /\ UNCHANGED <<collectVars, accessVars, filterVars, fecVars, pureVars>>
    /\ UNCHANGED <<recSlice, mutated>>

\* a call ToSet(input) about to start
ToSetInit ==
    /\ CollectIdle
    /\ FilterIdle
    /\ FecIdle
    /\ PureIdle
    /\ recOp = "ToSet"
    /\ recPc = "start"
    /\ heap = <<>>
    /\ heap0 = <<>>
    /\ maps = <<>>
    /\ recInput \in
          {NilSlice} \cup {Slice(FALSE, e) : e \in SeqsUpTo(Elems, MaxLen)}
    /\ transform = <<>>
    /\ mapIdx = 0
    /\ todo = {}
    /\ itemIdx = 0
    /\ recResult = NilMap
    /\ recRet = NoRecReturn
    /\ recSlice = NilSlice
    /\ mutated = "none"

\* record.go:84-87: nil for a nil input, else
\* result := make(map[K]struct{}, len(input))
ToSetEntry ==
    /\ recOp = "ToSet"
    /\ recPc = "start"
    /\ IF recInput.isNil
       THEN /\ recRet' = [returned |-> TRUE, ref |-> NilMap]
            /\ recPc' = "done"
            /\ UNCHANGED <<heap, recResult>>
       ELSE /\ heap' = Append(heap, EmptyMap)
            /\ recResult' = Len(heap) + 1
            /\ recPc' = "loop"
            /\ UNCHANGED recRet
    /\ itemIdx' = 0
    /\ UNCHANGED <<recOp, heap0, maps, recInput, transform, mapIdx, todo>>
    /\ UNCHANGED <<collectVars, accessVars, filterVars, fecVars, pureVars>>
    /\ UNCHANGED <<recSlice, mutated>>

\* a ToSet that leaves the loop at the first element it has seen before
MutToSetStepStopsAtDuplicate ==
    /\ recOp = "ToSet"
    /\ recPc = "loop"
    /\ IF /\ itemIdx < Len(recInput.elems)
          /\ At(recInput.elems, itemIdx) \notin DOMAIN heap[recResult]
       THEN /\ heap' = [heap EXCEPT
                           ![recResult] =
                               MapPut(@, At(recInput.elems, itemIdx),
                                      EmptyStruct)]
            /\ itemIdx' = itemIdx + 1
            /\ UNCHANGED <<recPc, recRet>>
       ELSE /\ recRet' = [returned |-> TRUE, ref |-> recResult]
            /\ recPc' = "done"
            /\ UNCHANGED <<heap, itemIdx>>
    /\ UNCHANGED <<recOp, heap0, maps, recInput, transform, mapIdx, todo,
                   recResult>>
    /\ UNCHANGED <<collectVars, accessVars, filterVars, fecVars, pureVars>>
    /\ UNCHANGED <<recSlice, mutated>>

\* record.go:88-91: result[item] = struct{}{} for the next item; after the
\* last one ToSet returns result
ToSetStep ==
    /\ recOp = "ToSet"
    /\ recPc = "loop"
    /\ IF itemIdx < Len(recInput.elems)
       THEN /\ heap' = [heap EXCEPT
                           ![recResult] =
                               MapPut(@, At(recInput.elems, itemIdx),
                                      EmptyStruct)]
            /\ itemIdx' = itemIdx + 1
            /\ UNCHANGED <<recPc, recRet>>
       ELSE /\ recRet' = [returned |-> TRUE, ref |-> recResult]
            /\ recPc' = "done"
            /\ UNCHANGED <<heap, itemIdx>>
    /\ UNCHANGED <<recOp, heap0, maps, recInput, transform, mapIdx, todo,
                   recResult>>
    /\ UNCHANGED <<collectVars, accessVars, filterVars, fecVars, pureVars>>
    /\ UNCHANGED <<recSlice, mutated>>

\* Clone (record.go:29-38) -------------------------------------------------

\* m without the key k: delete(m, k)
MapDel(m, k) == [x \in (DOMAIN m) \ {k} |-> m[x]]

\* a call Clone(m) about to start; m may be nil
CloneInit ==
    /\ CollectIdle
    /\ FilterIdle
    /\ FecIdle
    /\ PureIdle
    /\ recOp = "Clone"
    /\ recPc = "start"
    /\ heap \in [1..1 -> MapsOver(Keys, Vals)]
    /\ heap0 = heap
    /\ maps \in {<<NilMap>>, <<1>>}
    /\ recInput = NilSlice
    /\ transform = <<>>
    /\ mapIdx = 0
    /\ todo = {}
    /\ itemIdx = 0
    /\ recResult = NilMap
    /\ recRet = NoRecReturn
    /\ recSlice = NilSlice
    /\ mutated = "none"

\* a Clone that returns its argument
MutCloneEntryReturnsArgument ==
    /\ recOp = "Clone"
    /\ recPc = "start"
    /\ recRet' = [returned |-> TRUE, ref |-> maps[1]]
    /\ recPc' = "done"
    /\ UNCHANGED <<recOp, heap, heap0, maps, recInput, transform, mapIdx,
                   todo, itemIdx, recResult>>
    /\ UNCHANGED <<collectVars, accessVars, filterVars, fecVars, pureVars>>
    /\ UNCHANGED <<recSlice, mutated>>

\* record.go:30-33: nil for a nil map, else clone := make(map[K]V, len(m))
\* and the range over m starts
CloneEntry ==
    /\ recOp = "Clone"
    /\ recPc = "start"
    /\ IF maps[1] = NilMap
       THEN /\ recRet' = [returned |-> TRUE, ref |-> NilMap]
            /\ recPc' = "done"
            /\ UNCHANGED <<heap, recResult, todo>>
       ELSE /\ heap' = Append(heap, EmptyMap)
            /\ recResult' = Len(heap) + 1
            /\ todo' = DOMAIN heap[maps[1]]
            /\ recPc' = "cloneRange"
            /\ UNCHANGED recRet
    /\ UNCHANGED <<recOp, heap0, maps, recInput, transform, mapIdx, itemIdx>>
    /\ UNCHANGED <<collectVars, accessVars, filterVars, fecVars, pureVars>>
    /\ UNCHANGED <<recSlice, mutated>>

\* record.go:34-37: clone[k] = v for the entries of m in an order Go does
\* not fix; after the last one Clone returns clone
CloneCopy ==
    /\ recOp = "Clone"
    /\ recPc = "cloneRange"
    /\ IF todo = {}
       THEN /\ recRet' = [returned |-> TRUE, ref |-> recResult]
            /\ recPc' = "done"
            /\ UNCHANGED <<heap, todo>>
       ELSE /\ \E k \in todo :
                  /\ heap' = [heap EXCEPT
                                 ![recResult] = MapPut(@, k, heap[maps[1]][k])]
                  /\ todo' = todo \ {k}
            /\ UNCHANGED <<recPc, recRet>>
    /\ UNCHANGED <<recOp, heap0, maps, recInput, transform, mapIdx, itemIdx,
                   recResult>>
    /\ UNCHANGED <<collectVars, accessVars, filterVars, fecVars, pureVars>>
    /\ UNCHANGED <<recSlice, mutated>>

\* flatten_test.go:86: after Clone returned, its caller adds or changes a
\* key of the clone or of the original (side[ref] names which)
CallerPuts(ref, side) ==
    /\ recOp = "Clone"
    /\ recPc = "done"
    /\ mutated = "none"
    /\ ref # NilMap
    /\ \E k \in Keys, v \in Vals :
          /\ Content(heap, ref) # MapPut(heap[ref], k, v)
          /\ heap' = [heap EXCEPT ![ref] = MapPut(@, k, v)]
    /\ mutated' = side
    /\ UNCHANGED <<recOp, recPc, heap0, maps, recInput, transform, mapIdx,
                   todo, itemIdx, recResult, recRet, recSlice>>
    /\ UNCHANGED <<collectVars, accessVars, filterVars, fecVars, pureVars>>

\* the caller removes a key of the clone or of the original
CallerDeletes(ref, side) ==
    /\ recOp = "Clone"
    /\ recPc = "done"
    /\ mutated = "none"
    /\ ref # NilMap
    /\ \E k \in DOMAIN heap[ref] :
          heap' = [heap EXCEPT ![ref] = MapDel(@, k)]
    /\ mutated' = side
    /\ UNCHANGED <<recOp, recPc, heap0, maps, recInput, transform, mapIdx,
                   todo, itemIdx, recResult, recRet, recSlice>>
    /\ UNCHANGED <<collectVars, accessVars, filterVars, fecVars, pureVars>>

WriteClone == CallerPuts(recRet.ref, "clone")

WriteOriginal == CallerPuts(maps[1], "original")

DeleteInClone == CallerDeletes(recRet.ref, "clone")

DeleteInOriginal == CallerDeletes(maps[1], "original")

\* SortedKeys, SortedValues (record.go:10-26, 108-119) ----------------------

\* keys of the maps handed to SortedKeys and SortedValues
SortKeys == {1, 2, 3}

\* slices.Sort: ascending order, by insertion
RECURSIVE InsertSorted(_, _)
InsertSorted(x, sorted) ==
    IF Len(sorted) = 0 THEN <<x>>
    ELSE IF x <= Head(sorted) THEN <<x>> \o sorted
    ELSE <<Head(sorted)>> \o InsertSorted(x, Tail(sorted))

RECURSIVE SlicesSort(_)
SlicesSort(xs) ==
    IF Len(xs) = 0 THEN <<>> ELSE InsertSorted(Head(xs), SlicesSort(Tail(xs)))

\* a call SortedKeys(m) or SortedValues(m) about to start; m may be nil
SortedInit ==
    /\ CollectIdle
    /\ FilterIdle
    /\ FecIdle
    /\ PureIdle
    /\ recOp \in {"SortedKeys", "SortedValues"}
    /\ recPc = "start"
    /\ heap \in [1..1 -> MapsOver(SortKeys, Vals)]
    /\ heap0 = heap
    /\ maps \in {<<NilMap>>, <<1>>}
    /\ recInput = NilSlice
    /\ transform = <<>>
    /\ mapIdx = 0
    /\ todo = {}
    /\ itemIdx = 0
    /\ recResult = NilMap
    /\ recRet = NoRecReturn
    /\ recSlice = NilSlice
    /\ mutated = "none"

\* record.go:11, 21: keys := make([]K, 0, len(m)) in Keys, respectively
\* values := make([]V, 0, len(m)) in Values; the range over m starts
KeysEntry ==
    /\ recOp \in {"SortedKeys", "SortedValues"}
    /\ recPc = "start"
    /\ recSlice' = Slice(FALSE, <<>>)
    /\ todo' = DOMAIN Content(heap, maps[1])
    /\ recPc' = "keysRange"
    /\ UNCHANGED <<recOp, heap, heap0, maps, recInput, transform, mapIdx,
                   itemIdx, recResult, recRet, mutated>>
    /\ UNCHANGED <<collectVars, accessVars, filterVars, fecVars, pureVars>>

\* record.go:12-14, 22-24: the range appends the key, respectively the
\* value, of the entries of m in an order Go does not fix
KeysRange ==
    /\ recOp \in {"SortedKeys", "SortedValues"}
    /\ recPc = "keysRange"
    /\ \E k \in todo :
          /\ recSlice' = Slice(FALSE,
                               Append(recSlice.elems,
                                      IF recOp = "SortedKeys"
                                      THEN k
                                      ELSE heap[maps[1]][k]))
          /\ todo' = todo \ {k}
    /\ UNCHANGED <<recOp, recPc, heap, heap0, maps, recInput, transform,
                   mapIdx, itemIdx, recResult, recRet, mutated>>
    /\ UNCHANGED <<collectVars, accessVars, filterVars, fecVars, pureVars>>

\* SortedKeys and SortedValues without the call of slices.Sort
MutSortAndReturnUnsorted ==
    /\ recOp \in {"SortedKeys", "SortedValues"}
    /\ recPc = "keysRange"
    /\ todo = {}
    /\ recRet' = [returned |-> TRUE, ref |-> NilMap]
    /\ recPc' = "done"
    /\ UNCHANGED <<recOp, heap, heap0, maps, recInput, transform, mapIdx,
                   todo, itemIdx, recResult, recSlice, mutated>>
    /\ UNCHANGED <<collectVars, accessVars, filterVars, fecVars, pureVars>>

\* record.go:15, 110-111 and 25, 117-118: Keys / Values returns, the slice
\* is sorted in place and returned
SortAndReturn ==
    /\ recOp \in {"SortedKeys", "SortedValues"}
    /\ recPc = "keysRange"
    /\ todo = {}
    /\ recSlice' = Slice(FALSE, SlicesSort(recSlice.elems))
    /\ recRet' = [returned |-> TRUE, ref |-> NilMap]
    /\ recPc' = "done"
    /\ UNCHANGED <<recOp, heap, heap0, maps, recInput, transform, mapIdx,
                   todo, itemIdx, recResult, mutated>>
    /\ UNCHANGED <<collectVars, accessVars, filterVars, fecVars, pureVars>>

RecordInit ==
    \/ MergeInit
    \/ AssociateInit
    \/ ToSetInit
    \/ CloneInit
    \/ SortedInit

NextRecord ==
    \/ MergeEntry
    \/ MergeNextMap
    \/ MergeCopy
    \/ AssociateEntry
    \/ AssociateStep
    \/ ToSetEntry
    \/ ToSetStep
    \/ CloneEntry
    \/ CloneCopy
    \/ WriteClone
    \/ WriteOriginal
    \/ DeleteInClone
    \/ DeleteInOriginal
    \/ KeysEntry
    \/ KeysRange
    \/ SortAndReturn

SpecRecord == RecordInit /\ [][NextRecord]_vars

\* ------------------------------------------------------------------------
\* What the step function did, read off the log
\* ------------------------------------------------------------------------

\* positions of the log where operation op happened during invocation index
CallsAt(index, op) ==
    {j \in 1..Len(log) : log[j].idx = index /\ log[j].op = op}

Invoked(index) == CallsAt(index, "Invoke") # {}

\* handler(c) returned to the engine without a panic in flight
Returned(index) == CallsAt(index, "Return") # {}

StopCalled(index) == CallsAt(index, "Stop") # {}

ContinueCalled(index) == CallsAt(index, "Continue") # {}

Signalled(index) == StopCalled(index) \/ ContinueCalled(index)

SetCalled(index) == CallsAt(index, "SetValue") # {}

Max(S) == CHOOSE x \in S : \A y \in S : y <= x

\* the last value passed to SetValue during invocation index
LastSet(index) == log[Max(CallsAt(index, "SetValue"))].val

\* what invocation index is to contribute to the output: its last value when
\* it returned without a skip or halt decision and set a value, else nothing
Kept(index) ==
    IF Returned(index) /\ ~Signalled(index) /\ SetCalled(index)
    THEN <<LastSet(index)>>
    ELSE <<>>

\* the contributions of the indices 0 .. n-1, in index order
RECURSIVE KeptUpTo(_)
KeptUpTo(n) == IF n = 0 THEN <<>> ELSE KeptUpTo(n - 1) \o Kept(n - 1)

Indices == 0..(Len(input) - 1)

Range(s) == {s[j] : j \in 1..Len(s)}

\* ------------------------------------------------------------------------
\* Claims about Collect
\* ------------------------------------------------------------------------

\* C1: when the step function calls Stop at index k the run ends there: no
\* invocation for an index greater than k ever happens, no value of index k
\* or later enters the results, and the returned results are exactly the
\* values kept for the indices below k, in order.
C1_StopEndsRun ==
    \A k \in Indices :
        StopCalled(k) =>
            /\ \A j \in 1..Len(log) : log[j].idx <= k
            /\ \A j \in 1..Len(origin) : origin[j] < k
            /\ pc = "done" => (ret.returned /\ ret.results = KeptUpTo(k))

\* C1 witness: Stop at index 1 of a 3-element input after SetValue at index 1,
\* the value of index 0 kept, index 2 never visited.
C1_Witness ==
    /\ pc = "done"
    /\ Len(input) = 3
    /\ StopCalled(1)
    /\ SetCalled(1)
    /\ ret.results = <<11>>
    /\ ~Invoked(2)

\* C2: an index at which the step function called Continue contributes
\* nothing to the output, also when SetValue was called for it, and the run
\* goes on: when Collect returns, every later index was visited unless a Stop
\* happened before it.
C2_ContinueSkips ==
    \A k \in Indices :
        ContinueCalled(k) =>
            /\ k \notin Range(origin)
            /\ pc = "done" =>
                  \A m \in Indices :
                      m > k => (Invoked(m) \/ \E s \in k..(m - 1) : StopCalled(s))

\* C2 witness: SetValue then Continue at index 0, index 1 visited and kept.
C2_Witness ==
    /\ pc = "done"
    /\ ContinueCalled(0)
    /\ SetCalled(0)
    /\ ~StopCalled(0)
    /\ Invoked(1)
    /\ 1 \in Range(origin)

\* C3: the output is, in increasing index order, the last value set by each
\* invocation that returned without a skip or halt decision after calling
\* SetValue, and nothing for the other elements; so its length is the length
\* of the input when every invocation sets a value and none skips or halts.
C3_OutputIsKeptValues ==
    pc = "done" =>
        /\ ret.returned
        /\ ret.results = KeptUpTo(Len(input))
        /\ \A j \in 1..Len(origin) : Kept(origin[j]) = <<ret.results[j]>>
        /\ \A j \in 1..(Len(origin) - 1) : origin[j] < origin[j + 1]
        /\ (\A k \in Indices : SetCalled(k) /\ ~Signalled(k))
              => Len(ret.results) = Len(input)

\* C3 witness: every element of a 3-element input sets a value, index 1 sets
\* two, and the second one is in the output.
C3_Witness ==
    /\ pc = "done"
    /\ Len(input) = 3
    /\ ret.results = <<11, 22, 31>>

CallsWithError ==
    {j \in 1..Len(log) :
        /\ log[j].op \in {"Continue", "Stop"}
        /\ \E n \in 1..Len(log[j].errs) : log[j].errs[n] # NilErr}

\* C5 (as claimed): Collect returns a non-nil error if and only if some
\* Continue or Stop call of the run was given a non-nil error.
C5_ErrorIffErrorSupplied ==
    (pc = "done" /\ Len(input) > 0 /\ ~handlerNil) =>
        (~ret.errNil <=> CallsWithError # {})

\* the element errors of the Continue and Stop calls logged in l, in call
\* order and, within a call, in argument order
RECURSIVE SuppliedErrors(_)
SuppliedErrors(l) ==
    IF l = <<>> THEN <<>>
    ELSE (IF Head(l).op \in {"Continue", "Stop"}
          THEN ElemErrorsOf(Head(l).errs, Head(l).idx, At(input, Head(l).idx))
          ELSE <<>>) \o SuppliedErrors(Tail(l))

\* C6 (as claimed): the aggregate error holds exactly one element error per
\* non-nil error passed to a Continue or Stop call, with the index, the
\* input element and the error, ordered by index and argument order.
C6_AggregateHoldsEverySuppliedError ==
    pc = "done" => ret.err = SuppliedErrors(log)

\* C7: with an empty or nil input, or a nil step function, Collect returns an
\* empty result and a nil error, and the step function is never invoked.
C7_EmptyInputOrNilHandler ==
    (Len(input) = 0 \/ handlerNil) =>
        /\ log = <<>>
        /\ pc \in {"start", "done"}
        /\ pc = "done" =>
              (ret.returned /\ ret.results = <<>> /\ ret.errNil /\ ret.err = <<>>)

\* C7 witness: a non-empty input with a nil step function, returned.
C7_Witness ==
    /\ pc = "done"
    /\ handlerNil
    /\ Len(input) = 3
    /\ ret.returned

\* positions of the log where the step function raised a panic of its own
\* that no deferred function of it recovered
UnrecoveredPanics ==
    {j \in 1..Len(log) :
        /\ log[j].op = "Panic"
        /\ (j = Len(log) \/ log[j + 1].op # "Recover")}

\* C8: a panic of the step function that is not a control signal and leaves
\* the step function reaches Collect's caller with the same value: Collect
\* does not return, no later index is processed and nothing more happens.
C8_ForeignPanicPropagates ==
    /\ pc = "panicked" =>
          /\ log # <<>>
          /\ log[Len(log)].op = "Panic"
          /\ propagated = log[Len(log)].pv
          /\ propagated \in PanicVals
          /\ ~ret.returned
          /\ \A j \in 1..Len(log) : log[j].idx <= currentIndex
    /\ (UnrecoveredPanics # {} /\ pc # "handler") => pc = "panicked"

\* C8 witness: the step function panics at index 1 of a 3-element input
\* after index 0 produced a value.
C8_Witness ==
    /\ pc = "panicked"
    /\ propagated = "boom"
    /\ currentIndex = 1
    /\ Len(input) = 3
    /\ Len(result) = 1

\* ------------------------------------------------------------------------
\* Claims about Filter
\* ------------------------------------------------------------------------

\* the elements of xs that satisfy p, in their order in xs
RECURSIVE Satisfying(_, _)
Satisfying(xs, p) ==
    IF xs = <<>> THEN <<>>
    ELSE (IF p[Head(xs)] THEN <<Head(xs)>> ELSE <<>>) \o Satisfying(Tail(xs), p)

\* C9: with a non-nil predicate p, Filter(xs, p) is the subsequence of xs of
\* the elements satisfying p, in their original order, so its length is the
\* number of positions of xs whose element satisfies p.
C9_FilterIsSubsequence ==
    (filterPc = "done" /\ ~predicateNil) =>
        /\ filterRet.returned
        /\ filterRet.results = Satisfying(input, predicate)
        /\ Len(filterRet.results)
              = Cardinality({j \in 1..Len(input) : predicate[input[j]]})

\* C9 witness: a 3-element input of which Filter keeps the first and the
\* last element and drops the middle one.
C9_Witness ==
    /\ filterPc = "done"
    /\ ~predicateNil
    /\ input = <<2, 1, 2>>
    /\ filterRet.results = <<2, 2>>

\* ------------------------------------------------------------------------
\* Claims about ForEachChunk
\* ------------------------------------------------------------------------

\* number of handler invocations executing now
ActiveHandlers ==
    Cardinality({j \in Workers : worker[j].st = "handler"})
        + (IF fecPc = "seqHandler" THEN 1 ELSE 0)

\* C10: the number of handler invocations executing at the same time never
\* exceeds concurrency when concurrency > 1, and never exceeds 1 when
\* concurrency <= 1.
C10_ConcurrencyBound ==
    ActiveHandlers <= (IF concurrency > 1 THEN concurrency ELSE 1)

\* C10 witness: concurrency 2 and three chunks; two handlers run and the
\* third chunk waits for a token.
C10_Witness ==
    /\ concurrency = 2
    /\ Len(chunks) = 3
    /\ ActiveHandlers = 2
    /\ fecPc = "dispatch"
    /\ next = 2

\* ------------------------------------------------------------------------
\* ForEachChunk: the handler invocations, the return, the termination
\* ------------------------------------------------------------------------

ChunkIndices == 0..(Len(chunks) - 1)

Failed == {j \in ChunkIndices : outcome[j] = "err"}

Min(S) == CHOOSE x \in S : \A y \in S : x <= y

\* the chunks 0..n-1 one after the other
RECURSIVE ChunksUpTo(_)
ChunksUpTo(n) == IF n = 0 THEN <<>> ELSE ChunksUpTo(n - 1) \o At(chunks, n - 1)

\* C11 as stated: when ForEachChunk has returned, the handler was invoked
\* exactly once on every chunk, whatever the concurrency and whatever the
\* earlier invocations returned.
C11_HandlerOncePerChunk ==
    fecPc = "done" => \A j \in ChunkIndices : calls[j] = 1

\* C11 amended: the handler is never invoked twice on a chunk; in concurrent
\* mode (concurrency > 1) a returned ForEachChunk has invoked it exactly once
\* on every chunk, also after an error; in sequential mode (concurrency <= 1)
\* it has invoked it exactly once on every chunk up to and including the
\* first one whose invocation returned an error, and on no later chunk.
C11_HandlerOncePerChunkUntilSeqError ==
    /\ \A j \in Workers : calls[j] <= 1
    /\ \A j \in Workers \ ChunkIndices : calls[j] = 0
    /\ (fecPc = "done" /\ concurrency > 1) =>
           \A j \in ChunkIndices : calls[j] = 1
    /\ (fecPc = "done" /\ concurrency <= 1) =>
           \A j \in ChunkIndices :
               calls[j] = IF \E m \in Failed : m < j THEN 0 ELSE 1

\* C11 witness: concurrency 2, three chunks, the first invocation failed and
\* the handler still ran once on each chunk before the return.
C11_Witness ==
    /\ fecPc = "done"
    /\ concurrency = 2
    /\ Len(chunks) = 3
    /\ outcome[0] = "err"
    /\ \A j \in ChunkIndices : calls[j] = 1

\* C12: in concurrent mode ForEachChunk returns only after every handler
\* invocation it started has finished, also after an error: once it has
\* returned no goroutine is left that runs the handler or has still to
\* start it, and every started invocation has returned.
C12_ReturnsAfterAllHandlers ==
    (fecPc = "done" /\ concurrency > 1) =>
        /\ ActiveHandlers = 0
        /\ \A j \in Workers : worker[j].st \in {"none", "exit"}
        /\ \A j \in Workers : calls[j] > 0 => outcome[j] # "none"

\* C12 witness: concurrency 2, three chunks, the first invocation failed,
\* the two others succeeded, and ForEachChunk has returned.
C12_Witness ==
    /\ fecPc = "done"
    /\ concurrency = 2
    /\ Len(chunks) = 3
    /\ outcome[0] = "err"
    /\ outcome[1] = "nil"
    /\ outcome[2] = "nil"

\* C13: ForEachChunk returns a non-nil error exactly when some handler
\* invocation returned one, and the error is one an invocation returned:
\* in sequential mode that of the first failing chunk, in concurrent mode
\* the first one put on the error channel.
C13_ErrorIffHandlerError ==
    fecPc = "done" =>
        /\ fecRet.returned
        /\ ~fecRet.err.isNil <=> Failed # {}
        /\ ~fecRet.err.isNil =>
               /\ fecRet.err.of \in Failed
               /\ concurrency <= 1 => fecRet.err.of = Min(Failed)
               /\ concurrency > 1 => fecRet.err = Head(errChan)

\* C13 witness: concurrency 2, the invocations on chunks 0 and 1 both
\* failed, and the error returned is the one of chunk 1.
C13_Witness ==
    /\ fecPc = "done"
    /\ concurrency = 2
    /\ outcome[0] = "err"
    /\ outcome[1] = "err"
    /\ fecRet.err = HandlerError(1)

\* C14: with concurrency >= 1 and handler invocations that terminate,
\* ForEachChunk returns, and from then on no goroutine is left blocked on
\* the admission gate or on the error channel: every started goroutine has
\* ended.
C14_Terminates ==
    (concurrency >= 1) =>
        <>[](/\ fecPc = "done"
             /\ \A j \in Workers : worker[j].st \in {"none", "exit"})

\* C14 witness: concurrency 2, three chunks of one element (more chunks than
\* tokens), every invocation failed, and ForEachChunk has returned.
C14_Witness ==
    /\ fecPc = "done"
    /\ concurrency = 2
    /\ chunkSize = 1
    /\ Len(chunks) = 3
    /\ \A j \in ChunkIndices : outcome[j] = "err"
    /\ Len(errChan) = 3

\* C15: with concurrency <= 1 the handler runs on the chunks in input
\* order, an invocation starting only after the one before it has returned;
\* the accumulator the handler appends to holds the chunks handled so far
\* in order, and the whole input once ForEachChunk has returned nil.
C15_SequentialInOrder ==
    (concurrency <= 1) =>
        /\ \A j \in ChunkIndices :
               calls[j] > 0 => \A m \in 0..(j - 1) : outcome[m] = "nil"
        /\ processed =
               ChunksUpTo(Cardinality({j \in ChunkIndices : outcome[j] # "none"}))
        /\ (fecPc = "done" /\ fecRet.err.isNil) => processed = fecInput

\* C15 witness: concurrency 1, three chunks, every invocation returned nil
\* and the accumulator holds the three input elements.
C15_Witness ==
    /\ fecPc = "done"
    /\ concurrency = 1
    /\ Len(chunks) = 3
    /\ fecRet.err.isNil
    /\ processed = <<1, 2, 3>>

\* ------------------------------------------------------------------------
\* Chunk and Flatten
\* ------------------------------------------------------------------------

\* the sequences of ss one after the other
RECURSIVE ConcatAll(_)
ConcatAll(ss) == IF Len(ss) = 0 THEN <<>> ELSE Head(ss) \o ConcatAll(Tail(ss))

ChunkReturned == pureOp = "Chunk" /\ purePc \in {"returned", "flattened"}

FlattenReturned == pureOp = "Flatten" /\ purePc = "returned"

\* max(n, 1) for Chunk's size argument n
EffectiveSize == IF pureSize <= 0 THEN 1 ELSE pureSize

\* C16: for a non-empty input xs and every size n, Chunk(xs, n) is an exact
\* partition of xs into contiguous pieces: the chunks concatenated in order
\* (also by Flatten) give xs, every chunk but the last has max(n, 1)
\* elements, the last has between 1 and max(n, 1), and for n <= 0 the
\* result is that of Chunk(xs, 1).
C16_ChunkIsExactPartition ==
    (ChunkReturned /\ ~pureInput.isNil /\ Len(pureInput.elems) > 0) =>
        /\ ~pureResult.isNil
        /\ Len(pureResult.elems) >= 1
        /\ ConcatAll(pureResult.elems) = pureInput.elems
        /\ \A c \in 1..(Len(pureResult.elems) - 1) :
               Len(pureResult.elems[c]) = EffectiveSize
        /\ Len(pureResult.elems[Len(pureResult.elems)]) \in 1..EffectiveSize
        /\ pureSize <= 0 =>
               /\ pureResult = Chunk(pureInput, 1)
               /\ pureResult.elems =
                      [c \in 1..Len(pureInput.elems) |-> <<pureInput.elems[c]>>]
        /\ purePc = "flattened" => pureFlat = pureInput

\* C16 witness: three elements cut with size 2 into a full chunk and a
\* shorter last one, and flattened back.
C16_Witness ==
    /\ pureOp = "Chunk"
    /\ purePc = "flattened"
    /\ pureInput = Slice(FALSE, <<1, 2, 2>>)
    /\ pureSize = 2
    /\ pureResult = Slice(FALSE, <<<<1, 2>>, <<2>>>>)
    /\ pureFlat = Slice(FALSE, <<1, 2, 2>>)

\* C17: Chunk and Flatten keep the nil/empty distinction: a nil input gives
\* a nil result, an empty non-nil input gives an empty non-nil result, and
\* so does Flatten for a non-empty list of empty sequences.
C17_NilAndEmptyKeptApart ==
    (ChunkReturned \/ FlattenReturned) =>
        /\ pureInput.isNil => pureResult = NilSlice
        /\ (~pureInput.isNil /\ Len(pureInput.elems) = 0) =>
               pureResult = Slice(FALSE, <<>>)
        /\ (/\ pureOp = "Flatten"
            /\ ~pureInput.isNil
            /\ \A c \in 1..Len(pureInput.elems) :
                   Len(pureInput.elems[c].elems) = 0) =>
               pureResult = Slice(FALSE, <<>>)

\* C17 witness: Flatten of a list of two empty sequences, one of them nil,
\* has returned an empty non-nil slice.
C17_Witness ==
    /\ FlattenReturned
    /\ pureInput = Slice(FALSE, <<Slice(FALSE, <<>>), NilSlice>>)
    /\ pureResult = Slice(FALSE, <<>>)

\* ------------------------------------------------------------------------
\* package record
\* ------------------------------------------------------------------------

\* the content of the map the call returned
Returned_Map == Content(heap, recRet.ref)

\* positions of the arguments of Merge that held key k when it was called
ArgsWith(k) ==
    {a \in 1..Len(maps) : k \in DOMAIN Content(heap0, maps[a])}

\* positions of the items of Associate for which transform returned key k
ItemsWith(k) == {j \in 1..Len(transform) : transform[j][1] = k}

\* C18: Merge(m1, ..., mn) returns a new map (not nil, none of the maps
\* that existed before) whose keys are the union of the arguments' keys,
\* each with the value of the last argument that holds it; no map that
\* existed before the call is modified, during the call or after it.
C18_MergeLastWins ==
    recOp = "Merge" =>
        /\ \A r \in 1..Len(heap0) : heap[r] = heap0[r]
        /\ recPc = "done" =>
               /\ recRet.returned
               /\ recRet.ref # NilMap
               /\ recRet.ref \notin 1..Len(heap0)
               /\ DOMAIN Returned_Map = {k \in Keys : ArgsWith(k) # {}}
               /\ \A k \in DOMAIN Returned_Map :
                      Returned_Map[k] = heap0[maps[Max(ArgsWith(k))]][k]

\* C18 witness: Merge(m1, m2) with m1 = {1: 1, 2: 1} and m2 = {2: 2} has
\* returned {1: 1, 2: 2}.
C18_Witness ==
    /\ recOp = "Merge"
    /\ recPc = "done"
    /\ maps = <<1, 2>>
    /\ DOMAIN heap0[1] = {1, 2}
    /\ heap0[1][1] = 1
    /\ heap0[1][2] = 1
    /\ DOMAIN heap0[2] = {2}
    /\ heap0[2][2] = 2
    /\ DOMAIN Returned_Map = {1, 2}
    /\ Returned_Map[1] = 1
    /\ Returned_Map[2] = 2

\* C19: Associate(xs, f) returns a map whose keys are exactly the keys f
\* produced over xs, each with the value f produced for the last item of
\* xs that it mapped to this key.
C19_AssociateLastWins ==
    (recOp = "Associate" /\ recPc = "done") =>
        /\ recRet.returned
        /\ DOMAIN Returned_Map = {k \in Keys : ItemsWith(k) # {}}
        /\ \A k \in DOMAIN Returned_Map :
               Returned_Map[k] = transform[Max(ItemsWith(k))][2]

\* C19 witness: three items, f maps the first and the third to key 1 with
\* the values 1 and 2 and the second to key 2; the map returned holds
\* 2 for key 1.
C19_Witness ==
    /\ recOp = "Associate"
    /\ recPc = "done"
    /\ transform = <<<<1, 1>>, <<2, 1>>, <<1, 2>>>>
    /\ DOMAIN Returned_Map = {1, 2}
    /\ Returned_Map[1] = 2
    /\ Returned_Map[2] = 1

\* C20: ToSet(xs) returns a presence map whose keys are exactly the
\* distinct elements of xs, each with the value struct{}{}, so its size is
\* the number of distinct elements.
C20_ToSetKeysAreDistinctElements ==
    (recOp = "ToSet" /\ recPc = "done") =>
        /\ recRet.returned
        /\ DOMAIN Returned_Map = Range(recInput.elems)
        /\ Cardinality(DOMAIN Returned_Map) =
               Cardinality({x \in Elems :
                               \E j \in 1..Len(recInput.elems) :
                                   recInput.elems[j] = x})
        /\ \A k \in DOMAIN Returned_Map : Returned_Map[k] = EmptyStruct

\* C20 witness: ToSet of 1, 2, 1 has returned a map of two entries.
C20_Witness ==
    /\ recOp = "ToSet"
    /\ recPc = "done"
    /\ recInput = Slice(FALSE, <<1, 2, 1>>)
    /\ Cardinality(DOMAIN Returned_Map) = 2

\* the map handed to Clone, SortedKeys or SortedValues, as it was at the call
Argument_Map == Content(heap0, maps[1])

\* number of positions of the sequence xs that hold x
Occurrences(xs, x) == Cardinality({j \in 1..Len(xs) : xs[j] = x})

\* C21: SortedKeys(m) returns every key of m exactly once in ascending
\* order, SortedValues(m) returns one value per key of m, duplicates kept,
\* in ascending order; both whatever order the range over m took.
C21_SortedAscending ==
    (recOp \in {"SortedKeys", "SortedValues"} /\ recPc = "done") =>
        /\ recRet.returned
        /\ ~recSlice.isNil
        /\ Len(recSlice.elems) = Cardinality(DOMAIN Argument_Map)
        /\ \A a, b \in 1..Len(recSlice.elems) :
               a < b => recSlice.elems[a] <= recSlice.elems[b]
        /\ recOp = "SortedKeys" =>
               \A k \in SortKeys :
                   Occurrences(recSlice.elems, k) =
                       IF k \in DOMAIN Argument_Map THEN 1 ELSE 0
        /\ recOp = "SortedValues" =>
               \A v \in Vals :
                   Occurrences(recSlice.elems, v) =
                       Cardinality({k \in DOMAIN Argument_Map :
                                       Argument_Map[k] = v})

\* C21 witness: SortedValues of {1: 2, 2: 1, 3: 2} has returned 1, 2, 2.
C21_Witness ==
    /\ recOp = "SortedValues"
    /\ recPc = "done"
    /\ maps = <<1>>
    /\ heap0[1] = <<2, 1, 2>>
    /\ recSlice.elems = <<1, 2, 2>>

\* C22: Clone(nil) is nil; Clone(m) returns another map than m with the
\* content of m, m is not changed by the call, and a key added, changed or
\* removed afterwards in the clone leaves m as it was, and one added,
\* changed or removed in m leaves the clone as it was.
C22_CloneIsIndependent ==
    recOp = "Clone" =>
        /\ mutated # "original" =>
               \A r \in 1..Len(heap0) : heap[r] = heap0[r]
        /\ recPc = "done" =>
               /\ recRet.returned
               /\ maps[1] = NilMap <=> recRet.ref = NilMap
               /\ maps[1] # NilMap =>
                      /\ recRet.ref # maps[1]
                      /\ mutated # "clone" => heap[recRet.ref] = Argument_Map

\* C22 witness: the caller removed the only key of the clone of {1: 1} and
\* the original still holds it.
C22_Witness ==
    /\ recOp = "Clone"
    /\ recPc = "done"
    /\ mutated = "clone"
    /\ DOMAIN heap0[1] = {1}
    /\ DOMAIN heap[recRet.ref] = {}
    /\ DOMAIN heap[maps[1]] = {1}

\* ------------------------------------------------------------------------
\* ForEachChunk: the order of the dispatch
\* ------------------------------------------------------------------------

Dispatched == {j \in Workers : worker[j].st # "none"}

TokenHolders ==
    {j \in Workers : worker[j].st \in {"ready", "handler", "send", "release"}}

\* C29: in concurrent mode the goroutines are started in the order of the
\* chunks: the started ones are always the chunks 0..next-1, each holds an
\* admission token until it gives it back, and the goroutine of chunk j is
\* started only in a step where the chunks before j are started and fewer
\* than concurrency tokens are taken.
C29_DispatchInInsertionOrder ==
    /\ [](concurrency > 1 =>
             /\ Dispatched = 0..(next - 1)
             /\ sem = Cardinality(TokenHolders)
             /\ sem <= concurrency)
    /\ [][\A j \in Workers :
             (worker[j].st = "none" /\ worker'[j].st # "none") =>
                 /\ concurrency > 1
                 /\ j = next
                 /\ next' = j + 1
                 /\ \A m \in 0..(j - 1) : worker[m].st # "none"
                 /\ sem < concurrency
                 /\ sem' = sem + 1]_vars

\* C29 witness: concurrency 2; the handler of chunk 1 has completed before
\* the one of chunk 0, which still runs, and chunk 2 got the freed token.
C29_Witness ==
    /\ concurrency = 2
    /\ Len(chunks) = 3
    /\ worker[0].st = "handler"
    /\ worker[1].st = "exit"
    /\ worker[2].st = "handler"

\* ------------------------------------------------------------------------
\* Collect: the decision state, the reset, the order of the invocations
\* ------------------------------------------------------------------------

\* C26 (as claimed): when the processing of an element ends, the skip flag
\* and the halt flag are not both set, whatever the step function did,
\* also when it recovered the signal of Continue or Stop and called the
\* other one.
C26_ExactlyOneDecision ==
    pc = "decide" => ~(continued /\ stopped)

\* number of times the non-nil error e was passed to a Continue or Stop
\* call during the invocation for index idx
SuppliedAt(idx, e) ==
    Cardinality({c \in UNION {{<<j, a>> : a \in 1..Len(log[j].errs)} :
                                  j \in 1..Len(log)} :
                    /\ log[c[1]].idx = idx
                    /\ log[c[1]].op \in {"Continue", "Stop"}
                    /\ log[c[1]].errs[c[2]] = e})

\* number of element errors of the returned aggregate with index idx and
\* error e
MergedAt(idx, e) ==
    Cardinality({j \in 1..Len(ret.err) :
                    ret.err[j].Index = idx /\ ret.err[j].Err = e})

\* C27 (as claimed): nothing leaks from one element to the next: every
\* error attached at an index is in the returned aggregate exactly once,
\* and every value of the results was set during the invocation of the
\* element it was appended for, as the last value set there.
C27_NothingLeaksBetweenElements ==
    /\ ret.returned =>
           \A idx \in Indices, e \in Errs : MergedAt(idx, e) = SuppliedAt(idx, e)
    /\ \A j \in 1..Len(result) :
           /\ SetCalled(origin[j])
           /\ result[j] = LastSet(origin[j])

\* positions of the log where the step function was invoked, in order
InvokePositions == {j \in 1..Len(log) : log[j].op = "Invoke"}

\* C28: the step function is invoked with the indices 0, 1, 2, ... in this
\* order, at most once each; a run that returned without any Stop call
\* invoked it for every index of the input; while an invocation runs,
\* CurrentElem() yields its index and the input element at that index.
C28_InvokedInIndexOrder ==
    /\ \A j \in InvokePositions :
           log[j].idx = Cardinality({m \in InvokePositions : m < j})
    /\ \A idx \in Indices : Cardinality(CallsAt(idx, "Invoke")) <= 1
    /\ (/\ ret.returned
        /\ ~handlerNil
        /\ \A idx \in Indices : ~StopCalled(idx)) =>
           \A idx \in Indices : Invoked(idx)
    /\ pc = "handler" =>
           /\ Invoked(i)
           /\ \A idx \in Indices : idx > i => ~Invoked(idx)
           /\ CurrentElem = <<i, At(input, i)>>

\* C28 witness: the third invocation of a run over three elements is
\* running, the two before it returned.
C28_Witness ==
    /\ pc = "handler"
    /\ Len(input) = 3
    /\ i = 2
    /\ CurrentElem = <<2, 1>>
    /\ Returned(0)
    /\ Returned(1)

\* ------------------------------------------------------------------------
\* Collect: the slices handed out by Slice() and CurrentResult()
\* ------------------------------------------------------------------------

\* index of the invocation that made the latest call of CurrentResult()
LastResultCallIndex == log[Max({j \in 1..Len(log) : log[j].op = "CurrentResult"})].idx

WroteInto(op) == \E j \in 1..Len(log) : log[j].op = op

\* C23: CurrentResult(), called during the invocation for index i, returns
\* the values appended for the indices below i, in order (nothing when
\* there is none), so not a value set for element i itself; writing into
\* what it returned changes neither the results while the run goes on nor
\* the results Collect returns.
C23_CurrentResultIsACopy ==
    /\ snapAlias # "none" =>
           /\ snap.elems = KeptUpTo(LastResultCallIndex)
           /\ snap.isNil <=> Len(snap.elems) = 0
    /\ pc = "handler" => result = KeptUpTo(i)
    /\ ret.returned => ret.results = KeptUpTo(Len(input))

\* C23 witness: at index 1 the step function set a value, got the one value
\* of index 0 from CurrentResult() and overwrote it; Collect has returned
\* the two values set.
C23_Witness ==
    /\ ret.returned
    /\ Len(input) = 2
    /\ snap = Slice(FALSE, <<ValueOf(0, 1)>>)
    /\ LastResultCallIndex = 1
    /\ WroteInto("WriteResult")
    /\ ret.results = <<ValueOf(0, 1), ValueOf(1, 1)>>

\* C24 (as claimed): every call of Slice() returns a sequence with the
\* elements of the input handed to Collect, also after the step function
\* wrote into the sequence an earlier call returned, and the copy is built
\* at most once in a run.
C24_SliceReturnsTheInput ==
    /\ sliceAlias # "none" => sliceRet = Slice(FALSE, input0)
    /\ copies <= 1

\* the element errors that exist: attached in the invocation that runs,
\* merged so far, returned
ElemErrors ==
    Range(errOnContinued) \cup Range(errOnStopped) \cup Range(errs)
        \cup Range(ret.err)

\* C25: a write into the sequence Slice() returned never changes the
\* caller's input, what CurrentElem() yields in the running or a later
\* invocation, or the element value recorded in an element error.
C25_WritesStayInTheCopy ==
    /\ input = input0
    /\ pc = "handler" => CurrentElem = <<i, At(input0, i)>>
    /\ \A e \in ElemErrors : e.Value = At(input0, e.Index)

\* C25 witness: the step function overwrote the copy at index 0 and
\* attached an error at index 1; the error records the input element.
C25_Witness ==
    /\ ret.returned
    /\ \E j \in 1..Len(log) : log[j].op = "WriteSlice" /\ log[j].idx = 0
    /\ copied = Slice(FALSE, Scribbled(input0))
    /\ \E e \in Range(ret.err) : e.Index = 1 /\ e.Value = At(input0, 1)

====
